---- MODULE Spec2Model ----
(***************************************************************************)
(* Motion planner of the MDP robot: collision grid, viewing positions,     *)
(* kinematic A*, Hamiltonian scheduler, command generator and the          *)
(* two-phase bullseye handler.  plan() is run_algorithm of main.py and     *)
(* recover() is handle_bullseye / BullseyeHandler.handle.                  *)
(***************************************************************************)
EXTENDS Integers, Sequences, FiniteSets, TLC

VARIABLES
    request,   \* the request being served
    pc,        \* position of the request in the pipeline
    ret,       \* where a running A* search returns to
    grid,      \* Grid.obstacles, in insertion order
    astar,     \* the AStar instance: running search, its result, cost_cache
    solver,    \* HamiltonianSolver call frames (find_optimal_order, generate_full_path)
    handler,   \* BullseyeHandler.handle call frame
    response   \* what the endpoint returns

vars == <<request, pc, ret, grid, astar, solver, handler, response>>

(***************************************************************************)
(* consts.py / enums.py                                                    *)
(***************************************************************************)
CELL_SIZE == 10
OBSTACLE_SIZE == 10
ROBOT_CAMERA_DISTANCE == 20
TURN_RADIUS == 3
EXPANDED_CELL == 2
TURN_COST == 20
SCREENSHOT_COST == 50
MIN_PADDING == 1
MAX_PADDING == 18
INF_COST == 1000000000

NORTH == 0
EAST == 2
SOUTH == 4
WEST == 6
Direction == {NORTH, EAST, SOUTH, WEST}

Abs(n) == IF n < 0 THEN -n ELSE n
Max2(a, b) == IF a > b THEN a ELSE b

(***************************************************************************)
(* types.py: Position equality and hashing is by (x, y, direction);        *)
(* CellState adds screenshot_id and penalty, which equality ignores.       *)
(***************************************************************************)
CellState(x, y, d, s, p) ==
    [x |-> x, y |-> y, direction |-> d, screenshot_id |-> s, penalty |-> p]

Pos(c) == <<c.x, c.y, c.direction>>

PathPoint(c) == [x |-> c.x, y |-> c.y, d |-> c.direction, s |-> c.screenshot_id]

(***************************************************************************)
(* grid.py                                                                 *)
(***************************************************************************)
\* is_within_bounds with the band one cell wider at the far walls
is_within_bounds_wide(x, y) ==
    /\ MIN_PADDING <= x /\ x <= MAX_PADDING + 1
    /\ MIN_PADDING <= y /\ y <= MAX_PADDING + 1

is_within_bounds(x, y) ==
    /\ MIN_PADDING <= x /\ x <= MAX_PADDING
    /\ MIN_PADDING <= y /\ y <= MAX_PADDING

\* is_reachable with a clearance of EXPANDED_CELL - 1 cells
is_reachable_thin(obstacles, x, y) ==
    /\ is_within_bounds(x, y)
    /\ \A i \in 1..Len(obstacles) :
          ~(/\ Abs(obstacles[i].x - x) < EXPANDED_CELL
            /\ Abs(obstacles[i].y - y) < EXPANDED_CELL)

is_reachable(obstacles, x, y) ==
    /\ is_within_bounds(x, y)
    /\ \A i \in 1..Len(obstacles) :
          ~(/\ Abs(obstacles[i].x - x) <= EXPANDED_CELL
            /\ Abs(obstacles[i].y - y) <= EXPANDED_CELL)

(***************************************************************************)
(* obstacle.py                                                             *)
(***************************************************************************)
\* dist_cells with one more cell when retrying
dist_cells_further(retrying) ==
    LET base == (ROBOT_CAMERA_DISTANCE + (OBSTACLE_SIZE \div 2)) \div CELL_SIZE
    IN  IF ~retrying THEN (IF base < 3 THEN 3 ELSE base) ELSE base + 2

dist_cells(retrying) ==
    LET base == (ROBOT_CAMERA_DISTANCE + (OBSTACLE_SIZE \div 2)) \div CELL_SIZE
    IN  IF ~retrying THEN (IF base < 3 THEN 3 ELSE base) ELSE base + 1

get_viewing_positions(o, retrying) ==
    LET o1 == dist_cells(retrying)
        o2 == o1 + 1
        id == o.obstacle_id
    IN  CASE o.direction = NORTH ->
               << CellState(o.x,     o.y + o1, SOUTH, id, 0),
                  CellState(o.x,     o.y + o2, SOUTH, id, 5),
                  CellState(o.x - 1, o.y + o1, SOUTH, id, SCREENSHOT_COST),
                  CellState(o.x + 1, o.y + o1, SOUTH, id, SCREENSHOT_COST) >>
          [] o.direction = SOUTH ->
               << CellState(o.x,     o.y - o1, NORTH, id, 0),
                  CellState(o.x,     o.y - o2, NORTH, id, 5),
                  CellState(o.x - 1, o.y - o1, NORTH, id, SCREENSHOT_COST),
                  CellState(o.x + 1, o.y - o1, NORTH, id, SCREENSHOT_COST) >>
          [] o.direction = EAST ->
               << CellState(o.x + o1, o.y,     WEST, id, 0),
                  CellState(o.x + o2, o.y,     WEST, id, 5),
                  CellState(o.x + o1, o.y - 1, WEST, id, SCREENSHOT_COST),
                  CellState(o.x + o1, o.y + 1, WEST, id, SCREENSHOT_COST) >>
          [] o.direction = WEST ->
               << CellState(o.x - o1, o.y,     EAST, id, 0),
                  CellState(o.x - o2, o.y,     EAST, id, 5),
                  CellState(o.x - o1, o.y - 1, EAST, id, SCREENSHOT_COST),
                  CellState(o.x - o1, o.y + 1, EAST, id, SCREENSHOT_COST) >>
          [] OTHER -> << >>

\* the valid viewing positions among the primary candidate only
get_valid_viewing_positions_primary(obstacles, o, retrying) ==
    SelectSeq(SubSeq(get_viewing_positions(o, retrying), 1, 1),
              LAMBDA pos : is_reachable(obstacles, pos.x, pos.y))

get_valid_viewing_positions(obstacles, o, retrying) ==
    LET candidates == get_viewing_positions(o, retrying)
        Ok(pos) == is_reachable(obstacles, pos.x, pos.y)
    IN  SelectSeq(candidates, Ok)

(***************************************************************************)
(* astar.py: neighbours                                                    *)
(***************************************************************************)
\* apply_turn whose reverse arcs end where the forward arcs end
apply_turn_forward(turn_type, d) ==
    LET r == TURN_RADIUS
    IN  CASE turn_type \in {"FL", "BL"} ->
               (CASE d = 0 -> <<-r, r, 6>> [] d = 2 -> <<r, r, 0>>
                  [] d = 4 -> <<r, -r, 2>> [] d = 6 -> <<-r, -r, 4>>)
          [] turn_type \in {"FR", "BR"} ->
               (CASE d = 0 -> <<r, r, 2>> [] d = 2 -> <<r, -r, 4>>
                  [] d = 4 -> <<-r, -r, 6>> [] d = 6 -> <<-r, r, 0>>)

apply_turn(turn_type, d) ==
    LET r == TURN_RADIUS
    IN  CASE turn_type = "FL" ->
               (CASE d = 0 -> <<-r, r, 6>> [] d = 2 -> <<r, r, 0>>
                  [] d = 4 -> <<r, -r, 2>> [] d = 6 -> <<-r, -r, 4>>)
          [] turn_type = "FR" ->
               (CASE d = 0 -> <<r, r, 2>> [] d = 2 -> <<r, -r, 4>>
                  [] d = 4 -> <<-r, -r, 6>> [] d = 6 -> <<-r, r, 0>>)
          [] turn_type = "BL" ->
               (CASE d = 0 -> <<-r, -r, 2>> [] d = 2 -> <<-r, r, 4>>
                  [] d = 4 -> <<r, r, 6>> [] d = 6 -> <<r, -r, 0>>)
          [] turn_type = "BR" ->
               (CASE d = 0 -> <<r, -r, 6>> [] d = 2 -> <<-r, -r, 0>>
                  [] d = 4 -> <<-r, r, 2>> [] d = 6 -> <<r, r, 4>>)

\* the check points of the far end of the arc only
check_points_outer(step_x, step_y) ==
    << <<2 * step_x, 3 * step_y>>, <<3 * step_x, 2 * step_y>> >>

check_points(step_x, step_y) ==
    << <<step_x, 0>>, <<0, step_y>>,
       <<step_x, step_y>>, <<2 * step_x, step_y>>,
       <<step_x, 2 * step_y>>, <<2 * step_x, 2 * step_y>>,
       <<2 * step_x, 3 * step_y>>, <<3 * step_x, 2 * step_y>> >>

straight_neighbor(obstacles, st, sign) ==
    LET d  == st[3]
        dx == IF d = EAST THEN 1 ELSE IF d = WEST THEN -1 ELSE 0
        dy == IF d = NORTH THEN 1 ELSE IF d = SOUTH THEN -1 ELSE 0
        nx == st[1] + dx * sign
        ny == st[2] + dy * sign
    IN  IF is_reachable(obstacles, nx, ny)
        THEN << <<(<<nx, ny, d>>), 1>> >>
        ELSE << >>

\* turn_neighbor that tests the endpoint of the arc only
turn_neighbor_unswept(obstacles, st, turn) ==
    LET t  == apply_turn(turn, st[3])
        nx == st[1] + t[1]
        ny == st[2] + t[2]
    IN  IF is_reachable(obstacles, nx, ny)
        THEN << <<(<<nx, ny, t[3]>>), TURN_COST + TURN_RADIUS>> >>
        ELSE << >>

\* turn_neighbor whose arcs cost TURN_COST only
turn_neighbor_cheap(obstacles, st, turn) ==
    LET t      == apply_turn(turn, st[3])
        nx     == st[1] + t[1]
        ny     == st[2] + t[2]
        step_x == IF t[1] > 0 THEN 1 ELSE -1
        step_y == IF t[2] > 0 THEN 1 ELSE -1
        cps    == check_points(step_x, step_y)
        safe   == \A k \in 1..Len(cps) :
                     is_reachable(obstacles, st[1] + cps[k][1], st[2] + cps[k][2])
    IN  IF is_reachable(obstacles, nx, ny) /\ safe
        THEN << <<(<<nx, ny, t[3]>>), TURN_COST>> >>
        ELSE << >>

turn_neighbor(obstacles, st, turn) ==
    LET t      == apply_turn(turn, st[3])
        nx     == st[1] + t[1]
        ny     == st[2] + t[2]
        step_x == IF t[1] > 0 THEN 1 ELSE -1
        step_y == IF t[2] > 0 THEN 1 ELSE -1
        cps    == check_points(step_x, step_y)
        safe   == \A k \in 1..Len(cps) :
                     is_reachable(obstacles, st[1] + cps[k][1], st[2] + cps[k][2])
    IN  IF is_reachable(obstacles, nx, ny) /\ safe
        THEN << <<(<<nx, ny, t[3]>>), TURN_COST + TURN_RADIUS>> >>
        ELSE << >>

\* The neighbours of pose st = <<x, y, direction>>, as <<pose, cost>> pairs in
\* the order the code appends them.
get_neighbors(obstacles, st) ==
    straight_neighbor(obstacles, st, 1) \o straight_neighbor(obstacles, st, -1)
    \o turn_neighbor(obstacles, st, "FL") \o turn_neighbor(obstacles, st, "FR")
    \o turn_neighbor(obstacles, st, "BL") \o turn_neighbor(obstacles, st, "BR")


(***************************************************************************)
(* astar.py: AStarNode ordering.  f_cost = g_cost + sqrt(h2) where h2 is   *)
(* the squared Euclidean distance of heuristic(); the comparison of two    *)
(* f_costs is decided exactly on the integers g_cost and h2.               *)
(***************************************************************************)
heuristic2(st, goal) ==
    (st[1] - goal.x) * (st[1] - goal.x) + (st[2] - goal.y) * (st[2] - goal.y)

\* sqrt(a) >= m + sqrt(b), for m >= 0
SqrtGe(a, m, b) ==
    LET c == a - b - m * m IN c >= 0 /\ c * c >= 4 * m * m * b

\* sqrt(a) > m + sqrt(b), for m >= 0
SqrtGt(a, m, b) ==
    LET c == a - b - m * m IN c > 0 /\ c * c > 4 * m * m * b

\* AStarNode.__lt__: self.f_cost < other.f_cost
node_lt(a, b) ==
    LET k == b.g_cost - a.g_cost
    IN  IF k > 0 THEN ~SqrtGe(a.h2, k, b.h2) ELSE SqrtGt(b.h2, -k, a.h2)

AStarNode(st, g, goal, parent) ==
    [state |-> st, g_cost |-> g, h2 |-> heuristic2(st, goal), parent |-> parent]

NoParent == << >>

(***************************************************************************)
(* heapq (binary heap in a list; index i here is list position i - 1)      *)
(***************************************************************************)
RECURSIVE siftdown(_, _, _, _)
\* heapq._siftdown(heap, startpos, pos) carrying newitem up from pos
siftdown(heap, startIdx, idx, newitem) ==
    IF idx > startIdx /\ node_lt(newitem, heap[idx \div 2])
    THEN siftdown([heap EXCEPT ![idx] = heap[idx \div 2]], startIdx, idx \div 2, newitem)
    ELSE [heap EXCEPT ![idx] = newitem]

heappush(heap, item) ==
    LET h == Append(heap, item) IN siftdown(h, 1, Len(h), item)

RECURSIVE siftup_walk(_, _)
\* heapq._siftup: move the smaller child up until a leaf is reached; returns
\* <<heap, leaf index>>
siftup_walk(heap, idx) ==
    LET child == 2 * idx
        right == child + 1
        pick  == IF right <= Len(heap) /\ ~node_lt(heap[child], heap[right])
                 THEN right ELSE child
    IN  IF child <= Len(heap)
        THEN siftup_walk([heap EXCEPT ![idx] = heap[pick]], pick)
        ELSE <<heap, idx>>

siftup(heap, idx) ==
    LET newitem == heap[idx]
        w       == siftup_walk(heap, idx)
    IN  siftdown(w[1], idx, w[2], newitem)

\* heapq.heappop on a non-empty heap: <<returned item, remaining heap>>
heappop(heap) ==
    LET lastelt == heap[Len(heap)]
        rest    == SubSeq(heap, 1, Len(heap) - 1)
    IN  IF rest = << >>
        THEN <<lastelt, rest>>
        ELSE <<rest[1], siftup([rest EXCEPT ![1] = lastelt], 1)>>

(***************************************************************************)
(* astar.py: search, one loop iteration at a time                          *)
(***************************************************************************)
HasKey(f, k) == k \in DOMAIN f
Put(f, k, v) == (k :> v) @@ f
EmptyMap == [k \in {} |-> 0]

\* AStar.search up to the while loop
search_begin(a, start, goal) ==
    [a EXCEPT !.start = start, !.goal = goal,
              !.open_set = heappush(<< >>, AStarNode(Pos(start), 0, goal, NoParent)),
              !.closed = EmptyMap,
              !.g_scores = Put(EmptyMap, Pos(start), 0),
              !.path = << >>]

RECURSIVE chain(_, _, _)
\* the poses from the start node down to the node <<st, parent>>, following the
\* parent references of the expanded nodes
chain(closed, st, parent) ==
    IF parent = NoParent THEN << st >>
    ELSE Append(chain(closed, parent, closed[parent]), st)

\* AStar._reconstruct_path: the start node carries the caller's start object,
\* every other node a CellState built by get_neighbors
reconstruct_path(a, node) ==
    LET poses == chain(a.closed, node.state, node.parent)
    IN  [i \in 1..Len(poses) |->
            IF i = 1 THEN a.start
            ELSE CellState(poses[i][1], poses[i][2], poses[i][3], -1, 0)]

RECURSIVE relax(_, _, _, _, _)
\* the for loop over get_neighbors(curr); s = [open_set, g_scores]
relax(s, closed, goal, curr, nbrs) ==
    IF nbrs = << >> THEN s
    ELSE LET next_s      == Head(nbrs)[1]
             tentative_g == s.g_scores[curr] + Head(nbrs)[2]
         IN  IF next_s \in DOMAIN closed
             THEN relax(s, closed, goal, curr, Tail(nbrs))
             ELSE IF ~HasKey(s.g_scores, next_s) \/ tentative_g < s.g_scores[next_s]
             THEN relax([open_set |-> heappush(s.open_set,
                                        AStarNode(next_s, tentative_g, goal, curr)),
                         g_scores |-> Put(s.g_scores, next_s, tentative_g)],
                        closed, goal, curr, Tail(nbrs))
             ELSE relax(s, closed, goal, curr, Tail(nbrs))

\* the goal test on the cell alone, whatever the heading
is_goal_cell(st, goal) == st[1] = goal.x /\ st[2] = goal.y

is_goal(st, goal) == st[1] = goal.x /\ st[2] = goal.y /\ st[3] = goal.direction

\* the popped node is the goal: remember the cost, return the path
AStarGoal ==
    /\ pc = "search" /\ astar.open_set # << >>
    /\ LET p == heappop(astar.open_set) IN
       /\ is_goal(p[1].state, astar.goal)
       /\ astar' = [astar EXCEPT
              !.open_set = p[2],
              !.cost_cache = Put(@, <<Pos(astar.start), Pos(astar.goal)>>, p[1].g_cost),
              !.path = reconstruct_path(astar, p[1])]
    /\ pc' = ret
    /\ UNCHANGED <<request, ret, grid, solver, handler, response>>

\* the popped node was expanded before
AStarClosed ==
    /\ pc = "search" /\ astar.open_set # << >>
    /\ LET p == heappop(astar.open_set) IN
       /\ ~is_goal(p[1].state, astar.goal)
       /\ p[1].state \in DOMAIN astar.closed
       /\ astar' = [astar EXCEPT !.open_set = p[2]]
    /\ UNCHANGED <<request, pc, ret, grid, solver, handler, response>>

\* the popped node is expanded
AStarExpand ==
    /\ pc = "search" /\ astar.open_set # << >>
    /\ LET p      == heappop(astar.open_set)
           curr   == p[1].state
           closed == Put(astar.closed, curr, p[1].parent)
           s      == relax([open_set |-> p[2], g_scores |-> astar.g_scores],
                           closed, astar.goal, curr, get_neighbors(grid, curr))
       IN
       /\ ~is_goal(curr, astar.goal)
       /\ curr \notin DOMAIN astar.closed
       /\ astar' = [astar EXCEPT !.open_set = s.open_set,
                                 !.g_scores = s.g_scores,
                                 !.closed = closed]
    /\ UNCHANGED <<request, pc, ret, grid, solver, handler, response>>

\* open_set ran empty: no path
AStarExhausted ==
    /\ pc = "search" /\ astar.open_set = << >>
    /\ astar' = [astar EXCEPT !.path = << >>]
    /\ pc' = ret
    /\ UNCHANGED <<request, ret, grid, solver, handler, response>>

search == AStarGoal \/ AStarClosed \/ AStarExpand \/ AStarExhausted

(***************************************************************************)
(* python_tsp.exact.solve_tsp_dynamic_programming, as hamiltonian.py calls *)
(* it.  A matrix is a function on 0..m of functions on 0..m.  A tour cost  *)
(* is kept as <<k, c>> = k * 10^9 + c, so that sums of several 10^9        *)
(* entries stay exact.                                                     *)
(***************************************************************************)
AddCost(v, t) ==
    IF v >= INF_COST THEN <<t[1] + 1, t[2] + (v - INF_COST)>> ELSE <<t[1], t[2] + v>>

LessCost(a, b) == a[1] < b[1] \/ (a[1] = b[1] /\ a[2] < b[2])

SetMin(S) == CHOOSE m \in S : \A k \in S : m <= k

RECURSIVE tsp_dist(_, _, _)
\* dist(ni, N): the minimum over nj in N of D[ni][nj] + dist(nj, N - {nj})
tsp_dist(D, ni, N) ==
    IF N = {} THEN AddCost(D[ni][0], <<0, 0>>)
    ELSE LET costs == { AddCost(D[ni][nj], tsp_dist(D, nj, N \ {nj})) : nj \in N }
         IN  CHOOSE c \in costs : \A k \in costs : ~LessCost(k, c)

\* memo[(ni, N)]: the first nj, in the iteration order of N, of minimal cost
tsp_memo(D, ni, N) ==
    LET costs == { <<nj, AddCost(D[ni][nj], tsp_dist(D, nj, N \ {nj}))>> : nj \in N }
    IN  SetMin({ c[1] : c \in { m \in costs : \A k \in costs : ~LessCost(k[2], m[2]) } })

RECURSIVE tsp_solution(_, _, _)
tsp_solution(D, ni, N) ==
    IF N = {} THEN << >>
    ELSE LET nj == tsp_memo(D, ni, N)
         IN  <<nj>> \o tsp_solution(D, nj, N \ {nj})

RECURSIVE tour_cost(_, _, _)
\* the cost of the closed tour perm from its position i on
tour_cost(D, perm, i) ==
    IF i = Len(perm) THEN AddCost(D[perm[i]][perm[1]], <<0, 0>>)
    ELSE AddCost(D[perm[i]][perm[i + 1]], tour_cost(D, perm, i + 1))

\* a solver that returns the nodes in the order of the matrix
solve_tsp_in_order(D) ==
    LET perm == [i \in 1..Cardinality(DOMAIN D) |-> i - 1]
    IN  << perm, tour_cost(D, perm, 1) >>

\* <<permutation, distance>>
solve_tsp_dynamic_programming(D) ==
    LET N == (DOMAIN D) \ {0}
    IN  << <<0>> \o tsp_solution(D, 0, N), tsp_dist(D, 0, N) >>

(***************************************************************************)
(* hamiltonian.py: the subset loop of find_optimal_order                   *)
(***************************************************************************)
RECURSIVE combinations(_, _, _)
\* itertools.combinations(range(lo, hi + 1), k), in its order
combinations(lo, hi, k) ==
    IF k = 0 THEN << << >> >>
    ELSE IF hi - lo + 1 < k THEN << >>
    ELSE LET with == combinations(lo + 1, hi, k - 1)
         IN  [i \in 1..Len(with) |-> <<lo>> \o with[i]]
             \o combinations(lo + 1, hi, k)

\* cost_matrix[np.ix_(subset_indices, subset_indices)]
sub_matrix(cost_matrix, subset_indices) ==
    [i \in 0..(Len(subset_indices) - 1) |->
        [j \in 0..(Len(subset_indices) - 1) |->
            cost_matrix[subset_indices[i + 1]][subset_indices[j + 1]]]]

RECURSIVE best_subset_first(_, _, _)
\* the loop over the combinations that keeps the first subset with a finite tour
best_subset_first(cost_matrix, combs, b) ==
    IF combs = << >> THEN b
    ELSE LET subset_indices == <<0>> \o Head(combs)
             r    == solve_tsp_dynamic_programming(sub_matrix(cost_matrix, subset_indices))
             perm == r[1]
             dist == r[2]
             nb   == IF dist[1] = 0 /\ ~b.found
                     THEN [found |-> TRUE, dist |-> dist[2],
                           perm |-> [i \in 1..Len(perm) |-> subset_indices[perm[i] + 1]]]
                     ELSE b
         IN  best_subset_first(cost_matrix, Tail(combs), nb)

RECURSIVE best_subset_upto(_, _, _)
\* the loop over the combinations that takes a tour of cost 10^9 for a finite one
best_subset_upto(cost_matrix, combs, b) ==
    IF combs = << >> THEN b
    ELSE LET subset_indices == <<0>> \o Head(combs)
             r    == solve_tsp_dynamic_programming(sub_matrix(cost_matrix, subset_indices))
             perm == r[1]
             dist == r[2][1] * INF_COST + r[2][2]
             nb   == IF dist <= INF_COST /\ (~b.found \/ dist < b.dist)
                     THEN [found |-> TRUE, dist |-> dist,
                           perm |-> [i \in 1..Len(perm) |-> subset_indices[perm[i] + 1]]]
                     ELSE b
         IN  best_subset_upto(cost_matrix, Tail(combs), nb)

RECURSIVE best_subset(_, _, _)
\* the loop over the combinations of one subset size; b = [found, dist, perm]
best_subset(cost_matrix, combs, b) ==
    IF combs = << >> THEN b
    ELSE LET subset_indices == <<0>> \o Head(combs)
             r    == solve_tsp_dynamic_programming(sub_matrix(cost_matrix, subset_indices))
             perm == r[1]
             dist == r[2]
             nb   == IF dist[1] = 0 /\ (~b.found \/ dist[2] < b.dist)
                     THEN [found |-> TRUE, dist |-> dist[2],
                           perm |-> [i \in 1..Len(perm) |-> subset_indices[perm[i] + 1]]]
                     ELSE b
         IN  best_subset(cost_matrix, Tail(combs), nb)

RECURSIVE subset_loop(_, _, _)
\* for subset_size in range(n_targets, 0, -1): ... break
subset_loop(cost_matrix, n_targets, subset_size) ==
    IF subset_size < 1 THEN [found |-> FALSE, dist |-> 0, perm |-> <<0>>]
    ELSE LET b == best_subset(cost_matrix, combinations(1, n_targets, subset_size),
                              [found |-> FALSE, dist |-> 0, perm |-> << >>])
         IN  IF b.found THEN b
             ELSE subset_loop(cost_matrix, n_targets, subset_size - 1)

IndexOf(seq, v) == SetMin({i \in 1..Len(seq) : seq[i] = v})

\* best_permutation[start_idx:] + best_permutation[:start_idx]
rotate_to_zero(perm) ==
    IF perm[1] # 0
    THEN SubSeq(perm, IndexOf(perm, 0), Len(perm)) \o SubSeq(perm, 1, IndexOf(perm, 0) - 1)
    ELSE perm

\* lines 113-155 of find_optimal_order: [perm, dist], and the set skipped of
\* the targets it reports as left out
optimal_order(cost_matrix, n_targets) ==
    LET b == subset_loop(cost_matrix, n_targets, n_targets)
    IN  IF ~b.found THEN [perm |-> <<0>>, dist |-> 0, skipped |-> {}]
        ELSE [perm |-> rotate_to_zero(b.perm), dist |-> b.dist,
              skipped |-> (1..n_targets) \ { b.perm[i] : i \in 1..Len(b.perm) }]

(***************************************************************************)
(* commands/generator.py.  A command is the sequence of its characters,    *)
(* so that formatting (f"{cmd}10", f"SP{id}", f"{v:02d}") and parsing      *)
(* (startswith, c[:2], int(c[2:])) are modelled as the code does them.     *)
(***************************************************************************)
Digits == <<"0", "1", "2", "3", "4", "5", "6", "7", "8", "9">>

RECURSIVE Str(_)
\* str(n) for n >= 0
Str(n) == IF n < 10 THEN <<Digits[n + 1]>> ELSE Append(Str(n \div 10), Digits[(n % 10) + 1])

\* f"{n:02d}" for n >= 0
Str02(n) == IF n < 10 THEN <<"0">> \o Str(n) ELSE Str(n)

DigitVal(ch) == CHOOSE v \in 0..9 : Digits[v + 1] = ch

RECURSIVE ParseInt(_)
\* int(s) for a string of digits
ParseInt(s) ==
    IF Len(s) = 1 THEN DigitVal(s[1])
    ELSE 10 * ParseInt(SubSeq(s, 1, Len(s) - 1)) + DigitVal(s[Len(s)])

FW == <<"F", "W">>
BW == <<"B", "W">>
FR90 == <<"F", "R", "9", "0">>
FL90 == <<"F", "L", "9", "0">>
FIN == <<"F", "I", "N">>
SP(id) == <<"S", "P">> \o Str(id)
SNAP_FAILED(id) == <<"S", "N", "A", "P", "_", "F", "A", "I", "L", "E", "D">> \o Str(id)

startswith(c, prefix) == Len(c) >= Len(prefix) /\ SubSeq(c, 1, Len(prefix)) = prefix

\* parse that takes BW tokens for FW tokens
parse_forward(c) ==
    IF startswith(c, FW) \/ startswith(c, BW)
    THEN <<FW, ParseInt(SubSeq(c, 3, Len(c)))>>
    ELSE <<c, 0>>

\* parse of compress_commands: <<type, value>>
parse(c) ==
    IF startswith(c, FW) \/ startswith(c, BW)
    THEN <<SubSeq(c, 1, 2), ParseInt(SubSeq(c, 3, Len(c)))>>
    ELSE <<c, 0>>

\* the flush of a run as one token, whatever its value
split90_whole(type, curr_val) ==
    IF curr_val > 0 THEN <<type \o Str02(curr_val)>> ELSE << >>

RECURSIVE split90(_, _)
\* while curr_val > 90: ...; if curr_val > 0: ...
split90(type, curr_val) ==
    IF curr_val > 90 THEN <<type \o Str(90)>> \o split90(type, curr_val - 90)
    ELSE IF curr_val > 0 THEN <<type \o Str02(curr_val)>>
    ELSE << >>

flush(type, curr_val, original) ==
    IF type = FW \/ type = BW THEN split90(type, curr_val) ELSE <<original>>

RECURSIVE compress_loop(_, _, _, _)
compress_loop(commands, i, curr_val, compressed) ==
    IF i > Len(commands)
    THEN compressed \o flush(parse(commands[Len(commands)])[1], curr_val,
                             commands[Len(commands)])
    ELSE LET p    == parse(commands[i])
             prev == parse(commands[i - 1])
         IN  IF p[1] = prev[1] /\ p[2] > 0
             THEN compress_loop(commands, i + 1, curr_val + p[2], compressed)
             ELSE compress_loop(commands, i + 1, p[2],
                                compressed \o flush(prev[1], curr_val, commands[i - 1]))

compress_commands(commands) ==
    IF commands = << >> THEN << >>
    ELSE compress_loop(commands, 2, parse(commands[1])[2], << >>)

\* the commands of the step from waypoint prev to waypoint curr
step_commands(prev, curr) ==
    LET dist == Max2(Abs(curr.x - prev.x), Abs(curr.y - prev.y)) * 10
        is_forward ==
            \/ prev.direction = NORTH /\ curr.y > prev.y
            \/ prev.direction = SOUTH /\ curr.y < prev.y
            \/ prev.direction = EAST /\ curr.x > prev.x
            \/ prev.direction = WEST /\ curr.x < prev.x
        diff == (curr.direction - prev.direction) % 8
        snap == IF curr.screenshot_id # -1 THEN <<SP(curr.screenshot_id)>> ELSE << >>
    IN  IF prev.direction = curr.direction
        THEN IF dist = 0 THEN << >>
             ELSE <<(IF is_forward THEN FW ELSE BW) \o Str(10)>> \o snap
        ELSE (CASE diff = 2 -> <<FR90>>
                [] diff = 6 -> <<FL90>>
                [] diff = 4 -> <<FR90, FR90>>
                [] OTHER -> << >>) \o snap

RECURSIVE raw_commands(_, _)
raw_commands(path, i) ==
    IF i > Len(path) THEN << >>
    ELSE step_commands(path[i - 1], path[i]) \o raw_commands(path, i + 1)

generate_commands(path) == compress_commands(raw_commands(path, 2) \o <<FIN>>)

(***************************************************************************)
(* Requests                                                                *)
(***************************************************************************)
ObstacleInput(id, x, y, d) == [id |-> id, x |-> x, y |-> y, d |-> d]

\* photographed: the obstacles of the arena that the caller no longer lists,
\* remaining_obstacles being the obstacles "not yet successfully
\* photographed"; it is no field of the input and no handler reads it
PlanRequest(obstacles, x, y, d) ==
    [mode |-> "plan", obstacles |-> obstacles,
     robot_x |-> x, robot_y |-> y, robot_dir |-> d,
     obstacle_id |-> 0, new_direction |-> 0, photographed |-> << >>]

RecoverRequest(obstacles, x, y, d, id, nd, photographed) ==
    [mode |-> "recover", obstacles |-> obstacles,
     robot_x |-> x, robot_y |-> y, robot_dir |-> d,
     obstacle_id |-> id, new_direction |-> nd, photographed |-> photographed]

\* the largest number of obstacles of a request
MaxObstacles == 2

\* the obstacles of a request from their cells <<x, y, d>>; ids are 1, 2, ...
Layout(cells) ==
    [i \in 1..Len(cells) |-> ObstacleInput(i, cells[i][1], cells[i][2], cells[i][3])]

\* plan() calls: <<obstacle cells, start pose <<x, y, d>>>>
PlanCases ==
    { << <<<<18, 9, 4>>, <<12, 5, 2>>>>,                  <<16, 5, 6>>  >>,
      << <<<<9, 8, 6>>, <<5, 8, 6>>>>,                    <<2, 8, 2>>   >>,
      << <<<<10, 7, 0>>, <<10, 6, 0>>>>,                  <<13, 14, 6>> >>,
      << <<<<14, 10, 4>>, <<7, 4, 2>>, <<17, 3, 6>>>>,    <<14, 4, 0>>  >>,
      << <<<<12, 15, 6>>, <<13, 17, 4>>, <<9, 1, 4>>>>,   <<10, 15, 2>> >>,
      << <<<<7, 10, 4>>, <<8, 1, 0>>>>,                   <<8, 10, 6>>  >>,
      << <<<<1, 1, 0>>>>,                                 <<4, 7, 6>>   >>,
      << <<<<16, 11, 2>>>>,                               <<18, 11, 6>> >>,
      << <<<<1, 1, 0>>, <<10, 10, 0>>>>,                  <<1, 1, 0>>   >>,
      << <<<<4, 5, 6>>>>,                                 <<0, 5, 2>>   >>,
      << <<<<4, 5, 6>>>>,                                 <<0, 5, 0>>   >>,
      << <<<<5, 15, 0>>>>,                                <<5, 19, 4>>  >>,
      << <<<<12, 16, 0>>, <<10, 10, 0>>>>,                <<9, 14, 4>>  >> }

\* recover() calls: <<cells of remaining_obstacles, live pose, obstacle_id,
\* new_direction, cells of the obstacles photographed before>>
RecoverCases ==
    { << <<<<15, 5, 6>>, <<9, 10, 6>>>>,   <<13, 4, 2>>,  2, 4, << >> >>,
      << <<<<3, 6, 0>>, <<17, 4, 0>>>>,    <<17, 8, 4>>,  1, 6, << >> >>,
      << <<<<16, 16, 0>>>>,                <<13, 16, 2>>, 1, 6, << >> >>,
      << <<<<12, 2, 4>>>>,                 <<12, 18, 4>>, 1, 4, << >> >>,
      << <<<<15, 12, 0>>>>,                <<18, 15, 2>>, 1, 0, << >> >>,
      << <<<<14, 16, 6>>, <<17, 6, 6>>>>,  <<16, 16, 6>>, 1, 2, << >> >>,
      << <<<<10, 15, 4>>, <<12, 17, 0>>>>, <<9, 17, 4>>,  1, 0, << >> >>,
      << <<<<15, 12, 0>>>>,                <<18, 15, 2>>, 7, 4, << >> >>,
      << <<<<10, 10, 2>>>>,                <<10, 13, 4>>, 1, 2, <<<<10, 16, 4>>>> >> }

\* each plan case with its first k obstacles, k = 0..MaxObstacles
PlanRequests ==
    UNION { { PlanRequest(Layout(SubSeq(c[1], 1, k)), c[2][1], c[2][2], c[2][3]) :
                k \in { j \in 0..MaxObstacles : j <= Len(c[1]) } } : c \in PlanCases }

\* the recover cases of at most MaxObstacles obstacles
RecoverRequests ==
    { RecoverRequest(Layout(c[1]), c[2][1], c[2][2], c[2][3], c[3], c[4],
                     SubSeq(Layout(c[1] \o c[5]), Len(c[1]) + 1, Len(c[1]) + Len(c[5]))) :
        c \in { rc \in RecoverCases : Len(rc[1]) <= MaxObstacles } }

Requests ==
    PlanRequests \cup RecoverRequests

(***************************************************************************)
(* main.py: run_algorithm; robot.py; HamiltonianSolver.__init__            *)
(***************************************************************************)
Obstacle(x, y, direction, obstacle_id) ==
    [x |-> x, y |-> y, direction |-> direction, obstacle_id |-> obstacle_id]

\* grid.add_obstacle(Obstacle(obs["x"], obs["y"], Direction(obs["d"]), obs["id"]))
build_grid(obstacles_data) ==
    [i \in 1..Len(obstacles_data) |->
        Obstacle(obstacles_data[i].x, obstacles_data[i].y,
                 obstacles_data[i].d, obstacles_data[i].id)]

start_dir(robot_dir) == IF robot_dir \in {0, 2, 4, 6} THEN robot_dir ELSE NORTH

\* Robot.get_start_state
get_start_state(x, y, d) == CellState(x, y, d, -1, 0)

SENTINEL == CellState(-99, -99, NORTH, -1, 0)

NewAStar ==
    [start |-> SENTINEL, goal |-> SENTINEL, open_set |-> << >>, closed |-> EmptyMap,
     g_scores |-> EmptyMap, path |-> << >>, cost_cache |-> EmptyMap]

\* a solver for the robot at (x, y, d) and the target obstacles (indices into
\* grid.obstacles), entering find_optimal_order
NewSolver(x, y, d, targets, retrying) ==
    [robot |-> get_start_state(x, y, d), targets |-> targets, retrying |-> retrying,
     foo_vp |-> <<get_start_state(x, y, d)>>, gfp_vp |-> << >>,
     oi |-> 1, ci |-> 1, waiting |-> FALSE,
     cost_matrix |-> << >>, mi |-> 0, mj |-> 0,
     permutation |-> << >>, distance |-> 0, skipped |-> {},
     full_path |-> << >>, si |-> 1]

NoSolver == NewSolver(0, 0, NORTH, << >>, FALSE)

NoHandler ==
    [robot_state |-> SENTINEL, bullseye |-> 0, retrying |-> FALSE, ci |-> 1,
     waiting |-> FALSE, resolved_state |-> SENTINEL, p1_path |-> << >>,
     p1_cmds |-> << >>, skipped |-> FALSE, visit_obstacles |-> << >>]

Init ==
    /\ request \in Requests
    /\ pc = "start"
    /\ ret = "start"
    /\ grid = << >>
    /\ astar = NewAStar
    /\ solver = NoSolver
    /\ handler = NoHandler
    /\ response = [status |-> "pending"]

\* run_algorithm up to the call of find_optimal_order (called without retrying)
RunAlgorithm ==
    /\ pc = "start" /\ request.mode = "plan"
    /\ grid' = build_grid(request.obstacles)
    /\ solver' = NewSolver(request.robot_x, request.robot_y, start_dir(request.robot_dir),
                           [i \in 1..Len(request.obstacles) |-> i], FALSE)
    /\ astar' = NewAStar
    /\ pc' = "foo_select"
    /\ UNCHANGED <<request, ret, handler, response>>

(***************************************************************************)
(* hamiltonian.py: the viewing position of each target (the same loop in   *)
(* find_optimal_order, L = "foo_select", and in generate_full_path,        *)
(* L = "gfp_select"); F is the list being filled.                          *)
(***************************************************************************)
valid_positions(retrying) ==
    get_valid_viewing_positions(grid, grid[solver.targets[solver.oi]], retrying)

SelectCall(L, retrying) ==
    /\ pc = L /\ ~solver.waiting /\ solver.oi <= Len(solver.targets)
    /\ valid_positions(retrying) # << >>
    /\ astar' = search_begin(astar, solver.robot, valid_positions(retrying)[solver.ci])
    /\ solver' = [solver EXCEPT !.waiting = TRUE]
    /\ pc' = "search" /\ ret' = L
    /\ UNCHANGED <<request, grid, handler, response>>

\* SelectReturn that falls back on the candidate tried last
SelectReturnLast(L, F, retrying) ==
    /\ pc = L /\ solver.waiting
    /\ LET valid == valid_positions(retrying) IN
       solver' =
          IF astar.path # << >> \/ solver.ci = Len(valid)
          THEN [solver EXCEPT !.waiting = FALSE, ![F] = Append(@, valid[solver.ci]),
                              !.oi = @ + 1, !.ci = 1]
          ELSE [solver EXCEPT !.waiting = FALSE, !.ci = @ + 1]
    /\ UNCHANGED <<request, pc, ret, grid, astar, handler, response>>

SelectReturn(L, F, retrying) ==
    /\ pc = L /\ solver.waiting
    /\ LET valid == valid_positions(retrying) IN
       solver' =
          IF astar.path # << >>
          THEN [solver EXCEPT !.waiting = FALSE, ![F] = Append(@, valid[solver.ci]),
                              !.oi = @ + 1, !.ci = 1]
          ELSE IF solver.ci = Len(valid)
          THEN [solver EXCEPT !.waiting = FALSE, ![F] = Append(@, valid[1]),
                              !.oi = @ + 1, !.ci = 1]
          ELSE [solver EXCEPT !.waiting = FALSE, !.ci = @ + 1]
    /\ UNCHANGED <<request, pc, ret, grid, astar, handler, response>>

SelectNone(L, F, retrying) ==
    /\ pc = L /\ ~solver.waiting /\ solver.oi <= Len(solver.targets)
    /\ valid_positions(retrying) = << >>
    /\ solver' = [solver EXCEPT ![F] = Append(@, SENTINEL), !.oi = @ + 1]
    /\ UNCHANGED <<request, pc, ret, grid, astar, handler, response>>

FooSelectCall == SelectCall("foo_select", solver.retrying)
FooSelectReturn == SelectReturn("foo_select", "foo_vp", solver.retrying)
FooSelectNone == SelectNone("foo_select", "foo_vp", solver.retrying)

\* generate_full_path calls get_viewing_positions() with its default retrying
GfpSelectCall == SelectCall("gfp_select", FALSE)
GfpSelectReturn == SelectReturn("gfp_select", "gfp_vp", FALSE)
GfpSelectNone == SelectNone("gfp_select", "gfp_vp", FALSE)

(***************************************************************************)
(* hamiltonian.py: generate_cost_matrix, one entry at a time               *)
(***************************************************************************)
zeros(n) == [i \in 0..(n - 1) |-> [j \in 0..(n - 1) |-> 0]]

GenerateCostMatrix ==
    /\ pc = "foo_select" /\ ~solver.waiting /\ solver.oi > Len(solver.targets)
    /\ solver' = [solver EXCEPT !.cost_matrix = zeros(Len(solver.foo_vp)),
                                !.mi = 0, !.mj = 0]
    /\ pc' = "matrix"
    /\ UNCHANGED <<request, ret, grid, astar, handler, response>>

\* the next (i, j) of the two nested loops
matrix_next(s, v) ==
    LET n == Len(s.foo_vp)
    IN  [s EXCEPT !.cost_matrix[s.mi][s.mj] = v,
                  !.waiting = FALSE,
                  !.mi = IF s.mj = n - 1 THEN @ + 1 ELSE @,
                  !.mj = IF s.mj = n - 1 THEN 0 ELSE @ + 1]

matrix_direct(s) ==
    \/ s.mi = s.mj
    \/ s.mj = 0
    \/ s.foo_vp[s.mi + 1].x = -99
    \/ s.foo_vp[s.mj + 1].x = -99

MatrixEntry ==
    /\ pc = "matrix" /\ ~solver.waiting /\ solver.mi < Len(solver.foo_vp)
    /\ matrix_direct(solver)
    /\ solver' = matrix_next(solver,
                     IF solver.mi = solver.mj \/ solver.mj = 0 THEN 0 ELSE INF_COST)
    /\ UNCHANGED <<request, pc, ret, grid, astar, handler, response>>

MatrixCall ==
    /\ pc = "matrix" /\ ~solver.waiting /\ solver.mi < Len(solver.foo_vp)
    /\ ~matrix_direct(solver)
    /\ astar' = search_begin(astar, solver.foo_vp[solver.mi + 1], solver.foo_vp[solver.mj + 1])
    /\ solver' = [solver EXCEPT !.waiting = TRUE]
    /\ pc' = "search" /\ ret' = "matrix"
    /\ UNCHANGED <<request, grid, handler, response>>

\* MatrixReturn that leaves the penalty of the node out
MatrixReturnPlain ==
    /\ pc = "matrix" /\ solver.waiting
    /\ LET pi == solver.foo_vp[solver.mi + 1]
           pj == solver.foo_vp[solver.mj + 1]
       IN  solver' = matrix_next(solver,
                        IF astar.path # << >>
                        THEN astar.cost_cache[<<Pos(pi), Pos(pj)>>]
                        ELSE INF_COST)
    /\ UNCHANGED <<request, pc, ret, grid, astar, handler, response>>

MatrixReturn ==
    /\ pc = "matrix" /\ solver.waiting
    /\ LET pi == solver.foo_vp[solver.mi + 1]
           pj == solver.foo_vp[solver.mj + 1]
       IN  solver' = matrix_next(solver,
                        IF astar.path # << >>
                        THEN astar.cost_cache[<<Pos(pi), Pos(pj)>>] + pj.penalty
                        ELSE INF_COST)
    /\ UNCHANGED <<request, pc, ret, grid, astar, handler, response>>

\* the rest of find_optimal_order, and the caller's call of generate_full_path
FindOptimalOrder ==
    /\ pc = "matrix" /\ ~solver.waiting /\ solver.mi = Len(solver.foo_vp)
    /\ LET r == optimal_order(solver.cost_matrix, Len(solver.targets))
       IN  solver' = [solver EXCEPT !.permutation = r.perm, !.distance = r.dist,
                                    !.skipped = r.skipped,
                                    !.gfp_vp = <<solver.robot>>, !.oi = 1, !.ci = 1]
    /\ pc' = "gfp_select"
    /\ UNCHANGED <<request, ret, grid, astar, handler, response>>

(***************************************************************************)
(* hamiltonian.py: generate_full_path, the segment loop                    *)
(***************************************************************************)
GenerateSegments ==
    /\ pc = "gfp_select" /\ ~solver.waiting /\ solver.oi > Len(solver.targets)
    /\ solver' = [solver EXCEPT !.full_path = << >>, !.si = 1]
    /\ pc' = "gfp_segment"
    /\ UNCHANGED <<request, ret, grid, astar, handler, response>>

from_idx(s) == s.permutation[s.si]
to_idx(s) == s.permutation[s.si + 1]

\* one turn of the loop up to the search; if to_idx == 0: continue
SegmentCall ==
    /\ pc = "gfp_segment" /\ ~solver.waiting /\ solver.si < Len(solver.permutation)
    /\ IF to_idx(solver) = 0
       THEN /\ solver' = [solver EXCEPT !.si = @ + 1]
            /\ UNCHANGED <<pc, ret, astar>>
       ELSE /\ astar' = search_begin(astar, solver.gfp_vp[from_idx(solver) + 1],
                                     solver.gfp_vp[to_idx(solver) + 1])
            /\ solver' = [solver EXCEPT !.waiting = TRUE]
            /\ pc' = "search" /\ ret' = "gfp_segment"
    /\ UNCHANGED <<request, grid, handler, response>>

set_screenshot(path, id) == [path EXCEPT ![Len(path)].screenshot_id = id]

\* extend_full_path that keeps the first waypoint of every segment
extend_full_path_whole(s, segment, targets_grid) ==
    LET ext == s.full_path \o segment
    IN  IF segment = << >> THEN s.full_path
        ELSE IF to_idx(s) > 0 /\ ext # << >>
        THEN set_screenshot(ext, targets_grid[s.targets[to_idx(s)]].obstacle_id)
        ELSE ext

\* the body of the loop after the search: extend full_path, tag its last waypoint
extend_full_path(s, segment, targets_grid) ==
    LET ext == IF s.si = 1 THEN s.full_path \o segment
               ELSE s.full_path \o Tail(segment)
    IN  IF segment = << >> THEN s.full_path
        ELSE IF to_idx(s) > 0 /\ ext # << >>
        THEN set_screenshot(ext, targets_grid[s.targets[to_idx(s)]].obstacle_id)
        ELSE ext

SegmentReturn ==
    /\ pc = "gfp_segment" /\ solver.waiting
    /\ solver' = [solver EXCEPT !.waiting = FALSE, !.si = @ + 1,
                                !.full_path = extend_full_path(solver, astar.path, grid)]
    /\ UNCHANGED <<request, pc, ret, grid, astar, handler, response>>

path_points(path) == [i \in 1..Len(path) |-> PathPoint(path[i])]

snap_positions(points) == SelectSeq(points, LAMBDA pt : pt.s # -1)

\* run_algorithm after generate_full_path: the response of plan()
RunAlgorithmReturn ==
    /\ pc = "gfp_segment" /\ ~solver.waiting /\ solver.si >= Len(solver.permutation)
    /\ request.mode = "plan"
    /\ response' = [status |-> "ok",
                    commands |-> generate_commands(solver.full_path),
                    snap_positions |-> snap_positions(path_points(solver.full_path)),
                    path |-> path_points(solver.full_path),
                    distance |-> solver.distance]
    /\ pc' = "done"
    /\ UNCHANGED <<request, ret, grid, astar, solver, handler>>

(***************************************************************************)
(* main.py: handle_bullseye; bullseye_handler.py                           *)
(***************************************************************************)
\* the lookup that falls back on the first obstacle for an unknown id
find_obstacle_or_first(obstacles, id) ==
    IF \E i \in 1..Len(obstacles) : obstacles[i].obstacle_id = id
    THEN SetMin({i \in 1..Len(obstacles) : obstacles[i].obstacle_id = id})
    ELSE IF obstacles = << >> THEN 0 ELSE 1

\* next((i for o in obstacles if o.obstacle_id == id), None); 0 is None
find_obstacle(obstacles, id) ==
    IF \E i \in 1..Len(obstacles) : obstacles[i].obstacle_id = id
    THEN SetMin({i \in 1..Len(obstacles) : obstacles[i].obstacle_id = id})
    ELSE 0

\* HandleBullseye that sets the face of every obstacle of the grid
HandleBullseyeAll ==
    /\ pc = "start" /\ request.mode = "recover"
    /\ LET g == build_grid(request.obstacles)
           b == find_obstacle(g, request.obstacle_id)
       IN  IF b = 0 \/ request.new_direction \notin Direction
           THEN /\ grid' = g
                /\ response' = [status |-> "error", code |-> 400]
                /\ pc' = "error"
                /\ UNCHANGED handler
           ELSE /\ grid' = [i \in 1..Len(g) |-> [g[i] EXCEPT !.direction = request.new_direction]]
                /\ handler' = [NoHandler EXCEPT
                       !.robot_state = CellState(request.robot_x, request.robot_y,
                                                 start_dir(request.robot_dir), -1, 0),
                       !.bullseye = b]
                /\ pc' = "p1"
                /\ UNCHANGED response
    /\ astar' = NewAStar
    /\ UNCHANGED <<request, ret, solver>>

\* handle_bullseye and handle up to the call of path_to_correct_face
HandleBullseye ==
    /\ pc = "start" /\ request.mode = "recover"
    /\ LET g == build_grid(request.obstacles)
           b == find_obstacle(g, request.obstacle_id)
       IN  IF b = 0 \/ request.new_direction \notin Direction
           THEN /\ grid' = g
                /\ response' = [status |-> "error", code |-> 400]
                /\ pc' = "error"
                /\ UNCHANGED handler
           ELSE /\ grid' = [g EXCEPT ![b].direction = request.new_direction]
                /\ handler' = [NoHandler EXCEPT
                       !.robot_state = CellState(request.robot_x, request.robot_y,
                                                 start_dir(request.robot_dir), -1, 0),
                       !.bullseye = b]
                /\ pc' = "p1"
                /\ UNCHANGED response
    /\ astar' = NewAStar
    /\ UNCHANGED <<request, ret, solver>>

\* path_to_correct_face: for retrying in [False, True]; handler.retrying is the
\* loop variable, handler.ci the position in candidates
\* the candidates of the face the request gave the obstacle, not of new_direction
p1_candidates_requested_face ==
    get_valid_viewing_positions(grid, build_grid(request.obstacles)[handler.bullseye],
                                handler.retrying)

p1_candidates ==
    get_valid_viewing_positions(grid, grid[handler.bullseye], handler.retrying)

P1Call ==
    /\ pc = "p1" /\ ~handler.waiting /\ handler.ci <= Len(p1_candidates)
    /\ astar' = search_begin(astar, handler.robot_state, p1_candidates[handler.ci])
    /\ handler' = [handler EXCEPT !.waiting = TRUE]
    /\ pc' = "search" /\ ret' = "p1"
    /\ UNCHANGED <<request, grid, solver, response>>

\* the candidates of retrying = False are used up: go on with retrying = True
P1Retry ==
    /\ pc = "p1" /\ ~handler.waiting /\ handler.ci > Len(p1_candidates)
    /\ ~handler.retrying
    /\ handler' = [handler EXCEPT !.retrying = TRUE, !.ci = 1]
    /\ UNCHANGED <<request, pc, ret, grid, astar, solver, response>>

\* without_fin that leaves the commands as they are
without_fin_kept(cmds) == cmds

without_fin(cmds) == SelectSeq(cmds, LAMBDA c : c # FIN)

\* the search returned: a path ends phase 1, no path tries the next candidate
P1Return ==
    /\ pc = "p1" /\ handler.waiting
    /\ IF astar.path # << >>
       THEN /\ handler' = [handler EXCEPT
                   !.waiting = FALSE,
                   !.resolved_state = p1_candidates[handler.ci],
                   !.p1_path = astar.path,
                   !.p1_cmds = Append(without_fin(generate_commands(astar.path)),
                                      SP(grid[handler.bullseye].obstacle_id)),
                   !.skipped = FALSE]
            /\ pc' = "reroute"
       ELSE /\ handler' = [handler EXCEPT !.waiting = FALSE, !.ci = @ + 1]
            /\ pc' = pc
    /\ UNCHANGED <<request, ret, grid, astar, solver, response>>

\* P1Unreachable that reports a snapshot of the bullseye obstacle
P1UnreachableSnap ==
    /\ pc = "p1" /\ ~handler.waiting /\ handler.ci > Len(p1_candidates)
    /\ handler.retrying
    /\ handler' = [handler EXCEPT
           !.resolved_state = handler.robot_state,
           !.p1_path = <<handler.robot_state>>,
           !.p1_cmds = <<SP(grid[handler.bullseye].obstacle_id)>>,
           !.skipped = TRUE]
    /\ pc' = "reroute"
    /\ UNCHANGED <<request, ret, grid, astar, solver, response>>

\* no candidate was reached: SNAP_FAILED, the robot stays where it is
P1Unreachable ==
    /\ pc = "p1" /\ ~handler.waiting /\ handler.ci > Len(p1_candidates)
    /\ handler.retrying
    /\ handler' = [handler EXCEPT
           !.resolved_state = handler.robot_state,
           !.p1_path = <<handler.robot_state>>,
           !.p1_cmds = <<SNAP_FAILED(grid[handler.bullseye].obstacle_id)>>,
           !.skipped = TRUE]
    /\ pc' = "reroute"
    /\ UNCHANGED <<request, ret, grid, astar, solver, response>>

RECURSIVE visit_list(_, _, _)
\* the grid indices of the remaining obstacles other than the bullseye one
visit_list(data, obstacles, obstacle_id) ==
    IF data = << >> THEN << >>
    ELSE LET i == find_obstacle(obstacles, Head(data).id)
             rest == visit_list(Tail(data), obstacles, obstacle_id)
         IN  IF Head(data).id = obstacle_id \/ i = 0 THEN rest ELSE <<i>> \o rest

\* the response of recover() that keeps the first waypoint of phase 2
stitch_whole(h, p2, new_direction) ==
    LET p1_dicts == path_points(h.p1_path)
    IN  [status |-> "ok",
         full_path |-> p1_dicts \o p2.path,
         full_commands |-> h.p1_cmds \o p2.commands,
         phase1_path |-> p1_dicts,
         phase1_commands |-> h.p1_cmds,
         phase2_path |-> p2.path,
         phase2_commands |-> p2.commands,
         phase2_distance |-> p2.distance,
         resolved_position |-> PathPoint(h.resolved_state),
         new_direction |-> new_direction,
         skipped_obstacle |-> h.skipped]

\* the response of recover() from the two phases
stitch(h, p2, new_direction) ==
    LET p1_dicts == path_points(h.p1_path)
        p2_path  == p2.path
    IN  [status |-> "ok",
         full_path |-> IF p1_dicts # << >> /\ p2_path # << >>
                       THEN p1_dicts \o Tail(p2_path) ELSE p1_dicts \o p2_path,
         full_commands |-> h.p1_cmds \o p2.commands,
         phase1_path |-> p1_dicts,
         phase1_commands |-> h.p1_cmds,
         phase2_path |-> p2_path,
         phase2_commands |-> p2.commands,
         phase2_distance |-> p2.distance,
         resolved_position |-> PathPoint(h.resolved_state),
         new_direction |-> new_direction,
         skipped_obstacle |-> h.skipped]

with_data(r) ==
    [k \in DOMAIN r \cup {"data"} |->
        IF k = "data"
        THEN [commands |-> r.full_commands, snap_positions |-> snap_positions(r.full_path)]
        ELSE r[k]]

\* reroute_remaining with nothing left to visit, and the rest of handle
RerouteNothing ==
    /\ pc = "reroute"
    /\ visit_list(request.obstacles, grid, request.obstacle_id) = << >>
    /\ handler' = [handler EXCEPT !.visit_obstacles = << >>]
    /\ response' = with_data(stitch(handler,
                       [commands |-> <<FIN>>, path |-> << >>, distance |-> 0],
                       request.new_direction))
    /\ pc' = "done"
    /\ UNCHANGED <<request, ret, grid, astar, solver>>

\* reroute_remaining: a new robot and solver at the resolved pose
RerouteRemaining ==
    /\ pc = "reroute"
    /\ LET visit == visit_list(request.obstacles, grid, request.obstacle_id) IN
       /\ visit # << >>
       /\ handler' = [handler EXCEPT !.visit_obstacles = visit]
       /\ solver' = NewSolver(handler.resolved_state.x, handler.resolved_state.y,
                              start_dir(handler.resolved_state.direction), visit, FALSE)
    /\ astar' = NewAStar
    /\ pc' = "foo_select"
    /\ UNCHANGED <<request, ret, grid, response>>

\* reroute_remaining after generate_full_path, and the rest of handle
RerouteReturn ==
    /\ pc = "gfp_segment" /\ ~solver.waiting /\ solver.si >= Len(solver.permutation)
    /\ request.mode = "recover"
    /\ response' = with_data(stitch(handler,
                       [commands |-> generate_commands(solver.full_path),
                        path |-> path_points(solver.full_path),
                        distance |-> solver.distance],
                       request.new_direction))
    /\ pc' = "done"
    /\ UNCHANGED <<request, ret, grid, astar, solver, handler>>

Next ==
    \/ RunAlgorithm
    \/ FooSelectCall \/ FooSelectReturn \/ FooSelectNone
    \/ GenerateCostMatrix \/ MatrixEntry \/ MatrixCall \/ MatrixReturn
    \/ FindOptimalOrder
    \/ GfpSelectCall \/ GfpSelectReturn \/ GfpSelectNone
    \/ GenerateSegments \/ SegmentCall \/ SegmentReturn
    \/ RunAlgorithmReturn
    \/ HandleBullseye \/ P1Call \/ P1Retry \/ P1Return \/ P1Unreachable
    \/ RerouteNothing \/ RerouteRemaining \/ RerouteReturn
    \/ AStarGoal \/ AStarClosed \/ AStarExpand \/ AStarExhausted

Spec == Init /\ [][Next]_vars

(***************************************************************************)
(* Properties of the responses.  They are stated on what the endpoint      *)
(* returns (response), the request and the collision grid of the call.     *)
(***************************************************************************)
Done == pc = "done"
PlanDone == Done /\ request.mode = "plan"
RecoverDone == Done /\ request.mode = "recover"

\* the paths of a response
ReturnedPaths ==
    IF request.mode = "plan" THEN {response.path}
    ELSE {response.full_path, response.phase1_path, response.phase2_path}

Chebyshev(ax, ay, bx, by) == Max2(Abs(ax - bx), Abs(ay - by))

\* Chebyshev distance > 2 to every obstacle of the collision grid
Clear(x, y) == \A i \in 1..Len(grid) : Chebyshev(x, y, grid[i].x, grid[i].y) > 2

\* a valid input has its start or live pose inside [1,18]^2
ValidInput == request.robot_x \in 1..18 /\ request.robot_y \in 1..18

StartClear == Clear(request.robot_x, request.robot_y)

\* C1 as stated: every waypoint of every returned path, the first one
\* included, has Chebyshev distance > 2 to every obstacle of the grid.
C1_ClearanceAllWaypoints ==
    (Done /\ ValidInput) =>
        \A p \in ReturnedPaths : \A i \in 1..Len(p) : Clear(p[i].x, p[i].y)

\* C1: every waypoint after the first of every returned path has Chebyshev
\* distance > 2 to every obstacle of the call's grid (for recover() the grid
\* holds the bullseye obstacle too), and so has the first waypoint when the
\* start / live pose of the request has.
C1_Clearance ==
    (Done /\ ValidInput) =>
        \A p \in ReturnedPaths : \A i \in 1..Len(p) :
            (i > 1 \/ StartClear) => Clear(p[i].x, p[i].y)

\* a recover() that moved the robot away from a live pose inside the
\* clearance of an obstacle
C1_Witness ==
    /\ RecoverDone /\ ~StartClear
    /\ ~response.skipped_obstacle
    /\ Len(response.full_path) > 1

Sign(n) == IF n > 0 THEN 1 ELSE IF n < 0 THEN -1 ELSE 0

\* inside [1,18]^2 and Chebyshev distance > 2 from every obstacle
Reachable(x, y) == x \in 1..18 /\ y \in 1..18 /\ Clear(x, y)

\* the eight cells an arc with step signs (sx, sy) sweeps
SweepCells(sx, sy) ==
    { <<sx, 0>>, <<0, sy>>, <<sx, sy>>, <<2 * sx, sy>>, <<sx, 2 * sy>>,
      <<2 * sx, 2 * sy>>, <<2 * sx, 3 * sy>>, <<3 * sx, 2 * sy>> }

\* the turn edges of a path: the positions i whose successor has another heading
TurnEdges(p) == { i \in 1..(Len(p) - 1) : p[i].d # p[i + 1].d }

\* C2: for every pair of consecutive waypoints of a returned path whose
\* heading differs, the eight sweep cells relative to the first waypoint and
\* the endpoint satisfy grid.reachable.
C2_ArcSweepSafety ==
    Done => \A p \in ReturnedPaths : \A i \in TurnEdges(p) :
                LET sx == Sign(p[i + 1].x - p[i].x)
                    sy == Sign(p[i + 1].y - p[i].y)
                IN  /\ \A c \in SweepCells(sx, sy) : Reachable(p[i].x + c[1], p[i].y + c[2])
                    /\ Reachable(p[i + 1].x, p[i + 1].y)

\* a returned path turns next to an obstacle: a cell one step outside the
\* swept square is inside the clearance of an obstacle
C2_Witness ==
    /\ Done
    /\ \E p \in ReturnedPaths : \E i \in TurnEdges(p) :
          \E dx \in -1..4, dy \in -1..4 :
             ~Clear(p[i].x + Sign(p[i + 1].x - p[i].x) * dx,
                    p[i].y + Sign(p[i + 1].y - p[i].y) * dy)

\* the 16 entries of the arc table: <<heading, dx, dy, new heading>>
ArcTable ==
    { <<0, -3, 3, 6>>, <<2, 3, 3, 0>>, <<4, 3, -3, 2>>, <<6, -3, -3, 4>>,
      <<0, 3, 3, 2>>, <<2, 3, -3, 4>>, <<4, -3, -3, 6>>, <<6, -3, 3, 0>>,
      <<0, -3, -3, 2>>, <<2, -3, 3, 4>>, <<4, 3, 3, 6>>, <<6, 3, -3, 0>>,
      <<0, 3, -3, 6>>, <<2, -3, -3, 0>>, <<4, -3, 3, 2>>, <<6, 3, 3, 4>> }

\* one cell along the heading axis, forward or backward, heading unchanged
UnitStep(a, b) ==
    /\ a.d = b.d
    /\ IF a.d \in {0, 4} THEN b.x = a.x /\ Abs(b.y - a.y) = 1
                          ELSE b.y = a.y /\ Abs(b.x - a.x) = 1

LegalEdge(a, b) == UnitStep(a, b) \/ <<a.d, b.x - a.x, b.y - a.y, b.d>> \in ArcTable

\* C3: in every returned path each pair of consecutive waypoints is a unit
\* step or an entry of the arc table, across segment joins and across the
\* phase1 / phase2 join too.
C3_KinematicLegality ==
    Done => \A p \in ReturnedPaths : \A i \in 1..(Len(p) - 1) : LegalEdge(p[i], p[i + 1])

\* a plan() path of two segments, and a recover() path of two phases
C3_Witness ==
    \/ /\ PlanDone
       /\ Cardinality({ i \in 1..Len(response.path) : response.path[i].s # -1 }) >= 2
       /\ TurnEdges(response.path) # {}
    \/ /\ RecoverDone
       /\ Len(response.phase1_path) > 1 /\ Len(response.phase2_path) > 1

\* C4: for every valid input, every waypoint of every returned path has
\* 1 <= x <= 18 and 1 <= y <= 18.
C4_Containment ==
    (Done /\ ValidInput) =>
        \A p \in ReturnedPaths : \A i \in 1..Len(p) :
            p[i].x \in 1..18 /\ p[i].y \in 1..18

\* a returned path runs along a wall of the arena
C4_Witness ==
    /\ Done /\ ValidInput
    /\ \E p \in ReturnedPaths : \E i \in 2..Len(p) :
          p[i].x \in {1, 18} \/ p[i].y \in {1, 18}

\* the obstacles plan() did not skip: those of the permutation
Visited == { solver.targets[solver.permutation[j]] : j \in 2..Len(solver.permutation) }

\* the poses of the viewing candidates of an obstacle for its face
CandidatePoses(o) ==
    LET c == get_viewing_positions(o, FALSE) IN { Pos(c[k]) : k \in 1..Len(c) }

\* C5 as stated: for every plan() result each obstacle that is not skipped
\* has its id exactly once as a snap value along the path, on a waypoint whose
\* pose is one of the obstacle's viewing candidates.
C5_VisitCoverage ==
    PlanDone =>
        \A t \in Visited :
            LET hits == { i \in 1..Len(response.path) :
                            response.path[i].s = grid[t].obstacle_id }
            IN  /\ Cardinality(hits) = 1
                /\ \A i \in hits :
                      <<response.path[i].x, response.path[i].y, response.path[i].d>>
                          \in CandidatePoses(grid[t])

\* the pose after one command; a pose is <<x, y, heading>>
ReplayStep(pose, c) ==
    LET cells == ParseInt(SubSeq(c, 3, Len(c))) \div 10
        along(n) == CASE pose[3] = NORTH -> <<pose[1], pose[2] + n, pose[3]>>
                      [] pose[3] = EAST  -> <<pose[1] + n, pose[2], pose[3]>>
                      [] pose[3] = SOUTH -> <<pose[1], pose[2] - n, pose[3]>>
                      [] pose[3] = WEST  -> <<pose[1] - n, pose[2], pose[3]>>
        arc(t) == <<pose[1] + t[1], pose[2] + t[2], t[3]>>
    IN  IF startswith(c, FW) THEN along(cells)
        ELSE IF startswith(c, BW) THEN along(-cells)
        ELSE IF c = FL90 THEN arc(apply_turn("FL", pose[3]))
        ELSE IF c = FR90 THEN arc(apply_turn("FR", pose[3]))
        ELSE pose

RECURSIVE Replay(_, _)
\* the pose after the commands cmds, from pose
Replay(pose, cmds) ==
    IF cmds = << >> THEN pose ELSE Replay(ReplayStep(pose, Head(cmds)), Tail(cmds))

StartPose == <<request.robot_x, request.robot_y, start_dir(request.robot_dir)>>

LastPose(p) == <<p[Len(p)].x, p[Len(p)].y, p[Len(p)].d>>

\* C6 as stated: for every plan() result with a non-empty path, replaying
\* the commands from the start pose ends at the pose of the last waypoint.
C6_CommandRoundTripPose ==
    (PlanDone /\ response.path # << >>) =>
        Replay(StartPose, response.commands) = LastPose(response.path)

\* the ids of the SP tokens of a tape, in order
SnapIds(cmds) ==
    LET sp == SelectSeq(cmds, LAMBDA c : startswith(c, <<"S", "P">>))
    IN  [k \in 1..Len(sp) |-> ParseInt(SubSeq(sp[k], 3, Len(sp[k])))]

\* the snap values other than -1 along a path, in order
PathSnaps(p) ==
    LET sn == SelectSeq(p, LAMBDA w : w.s # -1)
    IN  [k \in 1..Len(sn) |-> sn[k].s]

\* C7 as stated: the ids of the SP tokens of commands (full_commands) are, in
\* order, the snap values other than -1 along path (full_path).
C7_CommandRoundTripSnapshots ==
    /\ PlanDone => SnapIds(response.commands) = PathSnaps(response.path)
    /\ RecoverDone => SnapIds(response.full_commands) = PathSnaps(response.full_path)

\* exactly one FIN, at the end
EndsWithOneFin(cmds) ==
    /\ cmds # << >>
    /\ cmds[Len(cmds)] = FIN
    /\ \A i \in 1..(Len(cmds) - 1) : cmds[i] # FIN

\* C10: commands of plan(), full_commands and phase2_commands of recover()
\* hold exactly one FIN and it is their last token; phase1_commands holds none.
C10_FinTermination ==
    /\ PlanDone => EndsWithOneFin(response.commands)
    /\ RecoverDone =>
          /\ EndsWithOneFin(response.full_commands)
          /\ EndsWithOneFin(response.phase2_commands)
          /\ \A i \in 1..Len(response.phase1_commands) : response.phase1_commands[i] # FIN

\* a recover() whose two phases both moved the robot, and a plan() with moves
C10_Witness ==
    \/ /\ RecoverDone
       /\ Len(response.phase1_commands) > 1 /\ Len(response.phase2_commands) > 1
    \/ /\ PlanDone /\ Len(response.commands) > 3

(***************************************************************************)
(* find_optimal_order on cost matrices.  A matrix of generate_cost_matrix  *)
(* has a zero diagonal and a zero column 0; C[i][j] is 10^9 when A* finds  *)
(* no path from node i to node j.  Between viewing cells A* finds a path   *)
(* one way iff it finds one the other way: the viewing cells fall into     *)
(* components.  The start pose reaches the cells of its own component; a   *)
(* start pose inside the clearance of an obstacle can have moves into two  *)
(* components: plan() of the obstacles (6,13,W), (5,11,E) from (4,15,N)   *)
(* has the matrix <<0, 77, 85>>, <<0, 0, 10^9>>, <<0, 10^9, 0>>.           *)
(***************************************************************************)
\* the largest number of targets of a cost matrix
MaxTargets == 3

\* the finite entries
EntryCosts == {77, 85}

\* component 0 holds the targets no path leads to
Components == 0..2

\* the components the start pose has a path into
StartSees == {{1}, {1, 2}}

Pairs(n) == { ij \in (0..n) \X (1..n) : ij[1] < ij[2] }

\* A* finds a path from node i to target j
linked(comp, sees, i, j) ==
    IF i = 0 THEN comp[j] \in sees ELSE comp[i] # 0 /\ comp[i] = comp[j]

cost_matrix_of(n, comp, sees, w) ==
    [i \in 0..n |-> [j \in 0..n |->
        IF i = j \/ j = 0 THEN 0
        ELSE IF linked(comp, sees, i, j)
        THEN w[IF i < j THEN <<i, j>> ELSE <<j, i>>]
        ELSE INF_COST]]

\* find_optimal_order after generate_cost_matrix returned
InitOrder ==
    /\ request = PlanRequest(<< >>, 1, 1, NORTH)
    /\ pc = "matrix"
    /\ ret = "start"
    /\ grid = << >>
    /\ astar = NewAStar
    /\ \E n \in 1..MaxTargets :
       \E comp \in [1..n -> Components], sees \in StartSees, w \in [Pairs(n) -> EntryCosts] :
          LET s == NewSolver(1, 1, NORTH, [i \in 1..n |-> i], FALSE)
          IN  solver = [s EXCEPT !.foo_vp = [i \in 1..(n + 1) |-> s.robot],
                                 !.oi = n + 1,
                                 !.cost_matrix = cost_matrix_of(n, comp, sees, w),
                                 !.mi = n + 1]
    /\ handler = NoHandler
    /\ response = [status |-> "pending"]

NextOrder == FindOptimalOrder

SpecOrder == InitOrder /\ [][NextOrder]_vars

(***************************************************************************)
(* Properties of find_optimal_order, on the cost matrix it was given.      *)
(***************************************************************************)
OrderDone == pc = "gfp_select"

NumTargets == Len(solver.targets)

\* the orderings of the set S of targets
Orderings(S) ==
    { f \in [1..Cardinality(S) -> S] : \A i, j \in 1..Cardinality(S) : i # j => f[i] # f[j] }

\* the node before position i of the open path 0, ord[1], ord[2], ...
Before(ord, i) == IF i = 1 THEN 0 ELSE ord[i - 1]

\* every entry along the open path is below 10^9
FinitePath(C, ord) == \A i \in 1..Len(ord) : C[Before(ord, i)][ord[i]] < 1000000000

RECURSIVE PathSum(_, _, _)
\* the sum of the entries C[prev][next] along the open path, from position i
PathSum(C, ord, i) ==
    IF i > Len(ord) THEN 0 ELSE C[Before(ord, i)][ord[i]] + PathSum(C, ord, i + 1)

FiniteOrderings(C, S) == { ord \in Orderings(S) : FinitePath(C, ord) }

\* the least sum over the finite orderings of S (there is one)
MinPathSum(C, S) ==
    LET sums == { PathSum(C, ord, 1) : ord \in FiniteOrderings(C, S) }
    IN  CHOOSE m \in sums : \A k \in sums : m <= k

\* the result is an optimal open path over all the targets
OptimalOverAll ==
    LET C == solver.cost_matrix
        all == 1..NumTargets
    IN  /\ FiniteOrderings(C, all) # {}
        /\ solver.distance = MinPathSum(C, all)
        /\ solver.permutation[1] = 0
        /\ Tail(solver.permutation) \in FiniteOrderings(C, all)
        /\ PathSum(C, Tail(solver.permutation), 1) = solver.distance

\* C8 as stated: when every chosen viewing cell is reachable (A* finds a
\* path to it from the start pose), the distance is the minimum over the
\* orderings of all n obstacles and the permutation attains it.
C8_OptimalWhenEachReachable ==
    (OrderDone /\ \A j \in 1..NumTargets : solver.cost_matrix[0][j] < 1000000000)
        => OptimalOverAll

\* C8: when some ordering of all n obstacles has a finite sum, the distance
\* returned is the minimum, over the orderings of all n obstacles, of the sum
\* of C[prev][next] along the open path from node 0, without a cost for the
\* return to node 0, and the returned permutation attains it.
C8_OpenPathOptimality ==
    (OrderDone /\ FiniteOrderings(solver.cost_matrix, 1..NumTargets) # {})
        => OptimalOverAll

\* three targets, all in reach, whose order matters: the order of the
\* matrix is not an optimal one
C8_Witness ==
    /\ OrderDone /\ NumTargets = 3
    /\ FiniteOrderings(solver.cost_matrix, 1..3) = Orderings(1..3)
    /\ PathSum(solver.cost_matrix, <<1, 2, 3>>, 1) > solver.distance

\* the sizes k < n of the subsets with a finite tour
FeasibleSizes(C, n) ==
    { k \in 1..(n - 1) :
        \E S \in SUBSET (1..n) : Cardinality(S) = k /\ FiniteOrderings(C, S) # {} }

SetMax(S) == CHOOSE m \in S : \A k \in S : m >= k

\* the least sum over the subsets of size k
MinOverSubsets(C, n, k) ==
    LET sums == { MinPathSum(C, S) :
                    S \in { T \in SUBSET (1..n) :
                              Cardinality(T) = k /\ FiniteOrderings(C, T) # {} } }
    IN  CHOOSE m \in sums : \A j \in sums : m <= j

\* C9: when no finite tour over all n obstacles exists but one over fewer,
\* the permutation starts with 0 and visits a subset of the largest size k
\* with a finite tour, of the least cost among the subsets of that size;
\* the obstacles left out are those reported as skipped.
C9_PartialReachability ==
    LET C == solver.cost_matrix
        n == NumTargets
        ord == Tail(solver.permutation)
        visited == { ord[i] : i \in 1..Len(ord) }
    IN  (/\ OrderDone
         /\ FiniteOrderings(C, 1..n) = {}
         /\ FeasibleSizes(C, n) # {})
        => /\ solver.permutation[1] = 0
           /\ ord \in FiniteOrderings(C, visited)
           /\ Cardinality(visited) = SetMax(FeasibleSizes(C, n))
           /\ PathSum(C, ord, 1) = solver.distance
           /\ solver.distance = MinOverSubsets(C, n, Cardinality(visited))
           /\ (1..n) \ visited = solver.skipped

\* two subsets of the largest feasible size have tours of different cost
C9_Witness ==
    LET C == solver.cost_matrix
        n == NumTargets
    IN  /\ OrderDone
        /\ FiniteOrderings(C, 1..n) = {}
        /\ FeasibleSizes(C, n) # {}
        /\ \E S \in SUBSET (1..n) :
              /\ Cardinality(S) = SetMax(FeasibleSizes(C, n))
              /\ FiniteOrderings(C, S) # {}
              /\ MinPathSum(C, S) > solver.distance

(***************************************************************************)
(* Properties of plan() and recover() on their edge cases.                 *)
(***************************************************************************)
\* A* found no path from the start pose to the viewing cell chosen for any
\* target (row 0 of the cost matrix)
NoneInReach == \A j \in 1..NumTargets : solver.cost_matrix[0][j] >= INF_COST

\* C11: when the obstacle list is empty, or no obstacle's viewing cell can be
\* reached from the start pose, plan() returns an empty path, the commands
\* [FIN], distance 0 and the permutation [0], and no error.
C11_NothingToVisit ==
    (PlanDone /\ (request.obstacles = << >> \/ NoneInReach))
        => /\ response.status = "ok"
           /\ response.path = << >>
           /\ response.commands = <<FIN>>
           /\ response.distance = 0
           /\ solver.permutation = <<0>>

\* a plan() over obstacles none of which is in reach of the start pose
C11_Witness ==
    PlanDone /\ request.obstacles # << >> /\ NoneInReach

\* the poses one move away from the pose st = <<x, y, heading>>: a unit step
\* onto a reachable cell, or an arc of the table whose sweep cells and
\* endpoint are reachable
MovesFrom(st) ==
    LET ux == IF st[3] = EAST THEN 1 ELSE IF st[3] = WEST THEN -1 ELSE 0
        uy == IF st[3] = NORTH THEN 1 ELSE IF st[3] = SOUTH THEN -1 ELSE 0
        steps == { <<st[1] + k * ux, st[2] + k * uy, st[3]>> : k \in {-1, 1} }
        arcs  == { <<st[1] + t[2], st[2] + t[3], t[4]>> : t \in { a \in ArcTable : a[1] = st[3] } }
    IN  { b \in steps : Reachable(b[1], b[2]) }
        \cup { b \in arcs :
                 /\ Reachable(b[1], b[2])
                 /\ \A c \in SweepCells(Sign(b[1] - st[1]), Sign(b[2] - st[2])) :
                       Reachable(st[1] + c[1], st[2] + c[2]) }

RECURSIVE MoveClosure(_, _)
\* the poses some sequence of moves leads to from the poses seen
MoveClosure(seen, frontier) ==
    IF frontier = {} THEN seen
    ELSE LET next == (UNION { MovesFrom(st) : st \in frontier }) \ seen
         IN  MoveClosure(seen \cup next, next)

\* the poses in reach of pose from: those A*, being complete, finds a path to
InReach(from) == MoveClosure({from}, {from})

\* the obstacle recover() was called for, with its face set to new_direction
BullseyeObstacle ==
    [grid[find_obstacle(grid, request.obstacle_id)] EXCEPT !.direction = request.new_direction]

\* the unit vector out of a face
FaceVector(face) ==
    CASE face = NORTH -> <<0, 1>> [] face = EAST -> <<1, 0>>
      [] face = SOUTH -> <<0, -1>> [] face = WEST -> <<-1, 0>>

\* the viewing poses of face `face` of obstacle o at stand-off d, in generator
\* order: primary, one cell further, the two lateral ones; the robot looks at
\* the face
FaceCandidates(o, face, d) ==
    LET u   == FaceVector(face)
        lat == IF u[1] = 0 THEN <<1, 0>> ELSE <<0, 1>>
        at(k, l) == <<o.x + k * u[1] + l * lat[1], o.y + k * u[2] + l * lat[2], (face + 4) % 8>>
    IN  << at(d, 0), at(d + 1, 0), at(d, -1), at(d, 1) >>

\* the phase-1 candidates in the order they are tried: retrying = false, then
\* retrying = true, each in generator order, those on reachable cells only
P1List ==
    LET o == BullseyeObstacle
    IN  SelectSeq(FaceCandidates(o, o.direction, dist_cells(FALSE))
                      \o FaceCandidates(o, o.direction, dist_cells(TRUE)),
                  LAMBDA c : Reachable(c[1], c[2]))

\* the positions in P1List of the candidates in reach of the live pose
P1InReach ==
    LET reach == InReach(StartPose) IN { k \in 1..Len(P1List) : P1List[k] \in reach }

PoseOf(w) == <<w.x, w.y, w.d>>

\* the tape of a path of waypoints, without its FIN tokens
TapeNoFin(p) ==
    SelectSeq(generate_commands([i \in 1..Len(p) |-> CellState(p[i].x, p[i].y, p[i].d, p[i].s, 0)]),
              LAMBDA c : c # FIN)

\* C12: when some phase-1 candidate is in reach of the live pose, the resolved
\* pose is the first such candidate (retrying = false before retrying = true,
\* generator order, reachable cells only), phase1_path is a path of moves from
\* the live pose to it, and phase1_commands is the tape of that path without
\* FIN followed by SP{obstacle_id}.
C12_PhaseOneReachable ==
    (RecoverDone /\ P1InReach # {}) =>
        LET c == P1List[CHOOSE k \in P1InReach : \A j \in P1InReach : k <= j]
            p == response.phase1_path
        IN  /\ ~response.skipped_obstacle
            /\ PoseOf(response.resolved_position) = c
            /\ p # << >>
            /\ PoseOf(p[1]) = StartPose
            /\ LastPose(p) = c
            /\ \A i \in 1..(Len(p) - 1) : PoseOf(p[i + 1]) \in MovesFrom(PoseOf(p[i]))
            /\ response.phase1_commands = Append(TapeNoFin(p), SP(request.obstacle_id))

\* a recover() whose resolved pose is not the primary candidate of the new
\* face (that one is not on a reachable cell), reached by a path with moves
C12_Witness ==
    /\ RecoverDone /\ P1InReach # {}
    /\ PoseOf(response.resolved_position)
           # FaceCandidates(BullseyeObstacle, request.new_direction, dist_cells(FALSE))[1]
    /\ Len(response.phase1_path) > 1

\* the ids of the remaining obstacles other than the bullseye one
OtherIds == { request.obstacles[i].id : i \in 1..Len(request.obstacles) } \ {request.obstacle_id}

\* C13: in every recover() result skipped_obstacle is true if and only if no
\* viewing candidate of the bullseye obstacle's new face is in reach of the
\* live pose; then phase1_commands is [SNAP_FAILED{obstacle_id}], phase1_path
\* is [live pose], resolved_position is the live pose, and phase 2 is planned
\* from the live pose over the remaining obstacles: with none it is the empty
\* path with [FIN], otherwise the solver starts at the live pose with exactly
\* the other obstacles as targets and a non-empty phase2_path starts at the
\* live pose.
C13_PhaseOneUnreachable ==
    RecoverDone =>
        /\ response.skipped_obstacle <=> (P1InReach = {})
        /\ response.skipped_obstacle =>
             /\ response.phase1_commands = <<SNAP_FAILED(request.obstacle_id)>>
             /\ Len(response.phase1_path) = 1
             /\ PoseOf(response.phase1_path[1]) = StartPose
             /\ PoseOf(response.resolved_position) = StartPose
             /\ IF OtherIds = {}
                THEN response.phase2_path = << >> /\ response.phase2_commands = <<FIN>>
                ELSE /\ Pos(solver.robot) = StartPose
                     /\ { grid[solver.targets[i]].obstacle_id : i \in 1..Len(solver.targets) }
                            = OtherIds
                     /\ response.phase2_path # << >>
                            => PoseOf(response.phase2_path[1]) = StartPose
                     /\ \A i \in 1..Len(response.phase2_path) :
                            response.phase2_path[i].s \in OtherIds \cup {-1}

\* a recover() that reaches no candidate and still drives to another obstacle
C13_Witness ==
    /\ RecoverDone /\ P1InReach = {}
    /\ response.skipped_obstacle
    /\ Len(response.phase2_path) > 1
    /\ \E i \in 1..Len(response.phase2_path) : response.phase2_path[i].s \in OtherIds

\* C14: in every recover() result full_path is phase1_path followed by
\* phase2_path without its first waypoint, the first waypoint of a non-empty
\* phase2_path is the pose of the last waypoint of phase1_path, which is the
\* resolved pose, full_commands is phase1_commands followed by
\* phase2_commands, and full_path starts at the caller's live pose.
C14_Stitching ==
    RecoverDone =>
        LET p1 == response.phase1_path
            p2 == response.phase2_path
        IN  /\ p1 # << >>
            /\ response.full_path = p1 \o (IF p2 = << >> THEN << >> ELSE Tail(p2))
            /\ LastPose(p1) = PoseOf(response.resolved_position)
            /\ p2 # << >> => PoseOf(p2[1]) = LastPose(p1)
            /\ response.full_commands = response.phase1_commands \o response.phase2_commands
            /\ PoseOf(response.full_path[1]) = StartPose

\* a recover() with moves in both phases
C14_Witness ==
    /\ RecoverDone
    /\ Len(response.phase1_path) > 1 /\ Len(response.phase2_path) > 1
    /\ Len(response.full_path) = Len(response.phase1_path) + Len(response.phase2_path) - 1

\* the request names an obstacle that is not among its remaining obstacles
UnknownId ==
    /\ request.mode = "recover"
    /\ \A i \in 1..Len(request.obstacles) : request.obstacles[i].id # request.obstacle_id

\* C15: recover() called with an obstacle_id that matches no remaining
\* obstacle ends in the invalid-input error (HTTP 400): there is no plan in
\* the response, and every obstacle of the grid still has the face the
\* request gave it.
C15_UnknownObstacleId ==
    (UnknownId /\ pc # "start") =>
        /\ pc = "error"
        /\ response.status = "error" /\ response.code = 400
        /\ DOMAIN response = {"status", "code"}
        /\ Len(grid) = Len(request.obstacles)
        /\ \A i \in 1..Len(grid) : grid[i].direction = request.obstacles[i].d

\* a failed recover() for an unknown id whose new_direction differs from the
\* face of an obstacle of the request
C15_Witness ==
    /\ UnknownId /\ pc = "error"
    /\ \E i \in 1..Len(grid) : grid[i].direction # request.new_direction

(***************************************************************************)
(* Obstacle.get_viewing_positions on its own: any obstacle of the 20 x 20  *)
(* arena, any face, with and without retrying.                             *)
(***************************************************************************)
InitView ==
    /\ \E x \in (MIN_PADDING - 1)..(MAX_PADDING + 1), y \in (MIN_PADDING - 1)..(MAX_PADDING + 1),
          d \in Direction, retrying \in BOOLEAN :
          /\ request = PlanRequest(Layout(<< <<x, y, d>> >>), 1, 1, NORTH)
          /\ grid = build_grid(Layout(<< <<x, y, d>> >>))
          /\ solver = NewSolver(1, 1, NORTH, <<1>>, retrying)
    /\ pc = "view"
    /\ ret = "start"
    /\ astar = NewAStar
    /\ handler = NoHandler
    /\ response = [status |-> "pending"]

GetViewingPositions ==
    /\ pc = "view"
    /\ response' = [status |-> "ok",
                    positions |-> get_viewing_positions(grid[1], solver.retrying)]
    /\ pc' = "viewed"
    /\ UNCHANGED <<request, ret, grid, astar, solver, handler>>

NextView == GetViewingPositions

SpecView == InitView /\ [][NextView]_vars

\* C16 as stated: get_viewing_positions places the primary candidate at
\* stand-off 3 cells from the obstacle when retrying is false and at 4 cells
\* when retrying is true, the second candidate one cell further and the two
\* lateral candidates at the stand-off of the primary.
C16_RetryStandOff ==
    pc = "viewed" =>
        LET o == grid[1]
            d == IF solver.retrying THEN 4 ELSE 3
        IN  [i \in 1..Len(response.positions) |-> Pos(response.positions[i])]
                = FaceCandidates(o, o.direction, d)

(***************************************************************************)
(* CommandGenerator.compress_commands on its own: the command lists that   *)
(* generate_commands builds (FW10, BW10, FR90, FL90, SP tokens, then FIN), *)
(* compressed, and the result compressed once more.                        *)
(***************************************************************************)
\* the largest number of blocks of a drawn command list
MaxBlocks == 3

\* the lengths, in tokens, of a block of straight tokens
RunLengths == {1, 9, 10, 12, 19}

\* a block is a token and how often it is repeated
Blocks == ({FW \o Str(10), BW \o Str(10)} \X RunLengths) \cup ({FR90, FL90, SP(1)} \X {1})

RECURSIVE Expand(_)
Expand(blocks) ==
    IF blocks = << >> THEN << >>
    ELSE [i \in 1..Head(blocks)[2] |-> Head(blocks)[1]] \o Expand(Tail(blocks))

\* the list `commands` of generate_commands when compress_commands is called
RawTapes ==
    { Expand(b) \o <<FIN>> : b \in UNION { [1..n -> Blocks] : n \in 0..MaxBlocks } }

InitTape ==
    /\ request = PlanRequest(<< >>, 1, 1, NORTH)
    /\ pc = "commands"
    /\ ret = "start"
    /\ grid = << >>
    /\ astar = NewAStar
    /\ solver = NoSolver
    /\ handler = NoHandler
    /\ \E raw \in RawTapes :
          response = [status |-> "pending", input |-> << >>, commands |-> raw]

\* generate_commands: return self.compress_commands(commands)
GenerateCommandsReturn ==
    /\ pc = "commands"
    /\ response' = [status |-> "ok", input |-> response.commands,
                    commands |-> compress_commands(response.commands)]
    /\ pc' = "tape"
    /\ UNCHANGED <<request, ret, grid, astar, solver, handler>>

\* compress_commands called on the tape it returned
CompressAgain ==
    /\ pc = "tape"
    /\ response' = [status |-> "ok", input |-> response.commands,
                    commands |-> compress_commands(response.commands)]
    /\ pc' = "tape2"
    /\ UNCHANGED <<request, ret, grid, astar, solver, handler>>

NextTape == GenerateCommandsReturn \/ CompressAgain

SpecTape == InitTape /\ [][NextTape]_vars

IsStraight(c) == Len(c) > 2 /\ SubSeq(c, 1, 2) \in {FW, BW}

\* the value of a straight token, in cm
Value(c) == ParseInt(SubSeq(c, 3, Len(c)))

\* C17: a tape produced by generate_commands is a fixed point of
\* compress_commands, and no FW or BW token of it has a value above 90.
C17_CompressionIdempotence ==
    pc = "tape2" =>
        /\ response.commands = response.input
        /\ \A i \in 1..Len(response.input) :
              IsStraight(response.input[i]) => Value(response.input[i]) <= 90

\* a tape with a run of more than 90 cm, compressed once more
C17_Witness ==
    /\ pc = "tape2"
    /\ \E i \in 1..(Len(response.input) - 1) :
          /\ IsStraight(response.input[i]) /\ IsStraight(response.input[i + 1])
          /\ SubSeq(response.input[i], 1, 2) = SubSeq(response.input[i + 1], 1, 2)

RECURSIVE SumValues(_, _, _)
\* the total of the straight tokens t[i..j], in cm
SumValues(t, i, j) == IF i > j THEN 0 ELSE Value(t[i]) + SumValues(t, i + 1, j)

SameRun(t, i, m) == IsStraight(t[m]) /\ SubSeq(t[m], 1, 2) = SubSeq(t[i], 1, 2)

\* the values that stand for a run of T cm: 90s, then a rest in 1..90
Chunks(T) ==
    LET n == (T - 1) \div 90
    IN  [c \in 1..(n + 1) |-> IF c <= n THEN 90 ELSE T - 90 * n]

RECURSIVE Compressed(_, _)
\* what the tokens t[i..] are to become: each maximal run of straight tokens
\* of one kind as its chunks, every other token as it is
Compressed(t, i) ==
    IF i > Len(t) THEN << >>
    ELSE IF IsStraight(t[i])
    THEN LET j == CHOOSE j \in i..Len(t) :
                     /\ \A m \in i..j : SameRun(t, i, m)
                     /\ j = Len(t) \/ ~SameRun(t, i, j + 1)
             v == Chunks(SumValues(t, i, j))
         IN  [c \in 1..Len(v) |-> <<"straight", SubSeq(t[i], 1, 2), v[c]>>]
                 \o Compressed(t, j + 1)
    ELSE <<<<"other", t[i], 0>>>> \o Compressed(t, i + 1)

\* a tape read token by token: kind and value of a straight token, any other
\* token as it is
Tokens(t) ==
    [i \in 1..Len(t) |->
        IF IsStraight(t[i]) THEN <<"straight", SubSeq(t[i], 1, 2), Value(t[i])>>
        ELSE <<"other", t[i], 0>>]

\* C18: compress_commands replaces each maximal run of consecutive straight
\* tokens of one kind (FW or BW) with total T cm by zero or more tokens of
\* value 90 and one last token of the remaining non-zero value, in that
\* order and of that kind; FW and BW runs are not merged, and every other
\* token (turn, SP, FIN) is emitted as it is, in its place between the runs.
C18_CompressionResult ==
    pc \in {"tape", "tape2"} => Tokens(response.commands) = Compressed(response.input, 1)

\* a 120 cm forward run followed at once by a backward run
C18_Witness ==
    /\ pc = "tape"
    /\ \E i \in 1..(Len(response.input) - 12) :
          /\ \A m \in i..(i + 11) : response.input[m] = FW \o Str(10)
          /\ (i = 1 \/ response.input[i - 1] # FW \o Str(10))
          /\ response.input[i + 12] = BW \o Str(10)
    /\ \E j \in 1..(Len(response.commands) - 2) :
          /\ Tokens(response.commands)[j] = <<"straight", FW, 90>>
          /\ Tokens(response.commands)[j + 1] = <<"straight", FW, 30>>
          /\ SubSeq(response.commands[j + 2], 1, 2) = BW

(***************************************************************************)
(* plan() from a start pose on the cell of an obstacle (scenario S3) and   *)
(* from a start pose outside the arena.                                    *)
(***************************************************************************)
\* the ids of the snaps of a returned path
SnappedIds(p) == { p[i].s : i \in 1..Len(p) } \ {-1}

\* plan() from (1,1,N) with an obstacle at (1,1) facing N among the obstacles
TrappedCase ==
    /\ PlanDone /\ StartPose = <<1, 1, NORTH>>
    /\ \E i \in 1..Len(grid) : Pos(grid[i]) = <<1, 1, NORTH>>

\* the other obstacles, those whose primary viewing cell is free
FreeOthers ==
    { i \in 1..Len(grid) :
        /\ Pos(grid[i]) # <<1, 1, NORTH>>
        /\ LET c == FaceCandidates(grid[i], grid[i].direction, 3)[1] IN Reachable(c[1], c[2]) }

\* C19 as stated: with start pose (1,1,N) and an obstacle at (1,1) facing N
\* among the obstacles, the obstacle at (1,1) is not visited and every other
\* obstacle whose viewing cell is free appears as a snap in the returned path.
C19_TrappedObstacle ==
    TrappedCase =>
        /\ \A i \in 1..Len(grid) :
              Pos(grid[i]) = <<1, 1, NORTH>> => grid[i].obstacle_id \notin SnappedIds(response.path)
        /\ \A i \in FreeOthers : grid[i].obstacle_id \in SnappedIds(response.path)

\* C19, amended: with start pose (1,1,N) and an obstacle at (1,1) facing N
\* among the obstacles, no obstacle is visited: plan() returns the empty
\* path, commands [FIN] and distance 0, and no move leads from the start pose
\* to a free cell.
C19_TrappedStart ==
    TrappedCase =>
        /\ response.status = "ok"
        /\ response.path = << >> /\ response.commands = <<FIN>> /\ response.distance = 0
        /\ MovesFrom(StartPose) = {}

\* the trapped start with another obstacle whose viewing cell is free
C19_Witness == TrappedCase /\ FreeOthers # {}

\* the start pose of a plan() request lies outside [1,18]^2
OutsideStart ==
    /\ request.mode = "plan"
    /\ ~(request.robot_x \in 1..18 /\ request.robot_y \in 1..18)

\* C20 as stated: when the start pose lies outside [1,18]^2, plan() returns
\* an empty path, commands [FIN] and distance 0, and no returned waypoint is
\* outside [1,18]^2.
C20_OutOfBoundsStart ==
    (PlanDone /\ OutsideStart) =>
        /\ response.path = << >> /\ response.commands = <<FIN>> /\ response.distance = 0
        /\ \A i \in 1..Len(response.path) :
              response.path[i].x \in 1..18 /\ response.path[i].y \in 1..18

(***************************************************************************)
(* Properties of AStar.search, on every search of a request.               *)
(***************************************************************************)
\* a search has returned and its caller has not read the result yet
SearchReturned == pc # "search" /\ (solver.waiting \/ handler.waiting)

UnitFrom(st) == { b \in MovesFrom(st) : b[3] = st[3] }
ArcFrom(st) == { b \in MovesFrom(st) : b[3] # st[3] }

\* the cost of a sequence of poses: 1 for a unit step, 23 for an arc
RECURSIVE EdgeCost(_)
EdgeCost(poses) ==
    IF Len(poses) <= 1 THEN 0
    ELSE (IF poses[1][3] = poses[2][3] THEN 1 ELSE 23) + EdgeCost(Tail(poses))

RECURSIVE CostLevels(_, _, _, _)
\* hist[k] holds the poses of least cost c - k; the result is the least cost
\* of a sequence of moves that ends at goal, -1 if there is none
CostLevels(hist, seen, c, goal) ==
    LET new == ((UNION { UnitFrom(st) : st \in hist[1] })
                   \cup (UNION { ArcFrom(st) : st \in hist[23] })) \ seen
    IN  IF goal \in new THEN c
        ELSE IF new = {} /\ \A k \in 1..22 : hist[k] = {} THEN -1
        ELSE CostLevels(<<new>> \o SubSeq(hist, 1, 22), seen \cup new, c + 1, goal)

\* the least cost of a sequence of legal edges from start to goal, -1 if none
MinCost(start, goal) ==
    IF start = goal THEN 0
    ELSE CostLevels([k \in 1..23 |-> IF k = 1 THEN {start} ELSE {}], {start}, 1, goal)

\* the result of a search that returned, against the least cost
AStarResultCorrect ==
    SearchReturned =>
        LET s == Pos(astar.start)
            g == Pos(astar.goal)
            m == MinCost(s, g)
            poses == [i \in 1..Len(astar.path) |-> Pos(astar.path[i])]
        IN  IF m = -1 THEN poses = << >>
            ELSE /\ poses # << >>
                 /\ poses[1] = s /\ poses[Len(poses)] = g
                 /\ \A i \in 1..(Len(poses) - 1) : poses[i + 1] \in MovesFrom(poses[i])
                 /\ EdgeCost(poses) = m
                 /\ astar.cost_cache[<<s, g>>] = m

\* the poses of the arena
ArenaPoses == (1..18) \X (1..18) \X Direction

\* one turn of the loop of a running search: either one more pose is closed,
\* of the start pose and the poses of the arena, or the closed set stays and
\* open_set has lost a node; so the loop is left after finitely many turns
SearchProgress ==
    (pc = "search" /\ pc' = "search") =>
        LET closed == DOMAIN astar.closed
            after  == DOMAIN astar'.closed
        IN  \/ /\ closed \subseteq after /\ closed # after
               /\ after \subseteq ArenaPoses \cup {Pos(astar.start)}
            \/ /\ after = closed
               /\ Len(astar'.open_set) < Len(astar.open_set)

\* C21: every search terminates; it returns the empty sequence if and only
\* if no sequence of legal edges (unit steps of cost 1, checked arcs of cost
\* 23) leads from start to goal; otherwise it returns a sequence of legal
\* edges from start to goal of the least cost of all such sequences, and
\* cost_cache holds that cost for (start, goal).
C21_AStarCorrect ==
    /\ []AStarResultCorrect
    /\ [][SearchProgress]_vars

\* a search that found a path of several edges, an arc among them
C21_Witness ==
    /\ SearchReturned
    /\ Len(astar.path) > 5
    /\ \E i \in 1..(Len(astar.path) - 1) : astar.path[i].direction # astar.path[i + 1].direction

(***************************************************************************)
(* Properties of the scheduler's node list and cost matrix.                *)
(***************************************************************************)
\* find_optimal_order has built its node list and its cost matrix
OrderReturned == pc = "gfp_select" /\ solver.oi = 1 /\ ~solver.waiting /\ solver.ci = 1

IsSentinel(c) == Pos(c) = <<-99, -99, NORTH>>

\* C22: the cost matrix has C[i][i] = 0 and C[i][0] = 0 for all i; for
\* j # 0 and i # j, C[i][j] is 10^9 when node i or node j is the sentinel or
\* no sequence of legal edges leads from node i to node j, and otherwise the
\* least cost from node i to node j plus the penalty of node j.
C22_CostMatrix ==
    OrderReturned =>
        LET V == solver.foo_vp
            n == Len(V)
            C == solver.cost_matrix
        IN  \A i \in 0..(n - 1) : \A j \in 0..(n - 1) :
               LET m == MinCost(Pos(V[i + 1]), Pos(V[j + 1]))
               IN  C[i][j] = IF i = j \/ j = 0 THEN 0
                             ELSE IF IsSentinel(V[i + 1]) \/ IsSentinel(V[j + 1]) \/ m = -1
                             THEN 1000000000
                             ELSE m + V[j + 1].penalty

\* a matrix over two targets with an entry between them that holds a penalty
C22_Witness ==
    /\ OrderReturned
    /\ LET V == solver.foo_vp
           C == solver.cost_matrix
       IN  /\ Len(V) >= 3
           /\ \E i \in 1..(Len(V) - 1) : \E j \in 1..(Len(V) - 1) :
                 i # j /\ C[i][j] < 1000000000 /\ V[j + 1].penalty > 0

\* the candidates of target k that are on reachable cells, in generator order
ValidCandidates(k) ==
    LET o == grid[solver.targets[k]]
    IN  SelectSeq(FaceCandidates(o, o.direction, 3), LAMBDA c : Reachable(c[1], c[2]))

\* the positions in ValidCandidates(k) of those in reach of the start pose
CandidatesInReach(k) ==
    LET reach == InReach(Pos(solver.robot))
    IN  { i \in 1..Len(ValidCandidates(k)) : ValidCandidates(k)[i] \in reach }

\* C23: the scheduler's node of each target is the first candidate, in
\* generator order, on a reachable cell and in reach of the start pose; with
\* none in reach, the first candidate on a reachable cell; with no candidate
\* on a reachable cell, the sentinel (-99,-99,N).
C23_ViewingCellSelection ==
    OrderReturned =>
        \A k \in 1..Len(solver.targets) :
            Pos(solver.foo_vp[k + 1]) =
                IF ValidCandidates(k) = << >> THEN <<-99, -99, NORTH>>
                ELSE IF CandidatesInReach(k) = {} THEN ValidCandidates(k)[1]
                ELSE ValidCandidates(k)[SetMin(CandidatesInReach(k))]

\* a node list with a target whose first valid candidate is out of reach of
\* the start pose while a later one is in reach
C23_Witness ==
    /\ OrderReturned
    /\ \E k \in 1..Len(solver.targets) :
          CandidatesInReach(k) # {} /\ 1 \notin CandidatesInReach(k)

(***************************************************************************)
(* Properties of recover() on the arena of the mission: the obstacles of   *)
(* remaining_obstacles and those photographed before the bullseye.         *)
(***************************************************************************)
\* the cells of every physical obstacle on the arena
ArenaCells ==
    { <<request.obstacles[i].x, request.obstacles[i].y>> : i \in 1..Len(request.obstacles) }
        \cup { <<request.photographed[i].x, request.photographed[i].y>> :
                   i \in 1..Len(request.photographed) }

GridCells == { <<grid[i].x, grid[i].y>> : i \in 1..Len(grid) }

\* Chebyshev distance > 2 to every obstacle on the arena
ArenaClear(x, y) == \A c \in ArenaCells : Chebyshev(x, y, c[1], c[2]) > 2

\* the waypoints after the live pose and the arc-sweep cells of a path
Footprint(p) ==
    { <<p[i].x, p[i].y>> : i \in 2..Len(p) }
        \cup UNION { { <<p[i].x + c[1], p[i].y + c[2]>> :
                          c \in SweepCells(Sign(p[i + 1].x - p[i].x), Sign(p[i + 1].y - p[i].y)) } :
                     i \in TurnEdges(p) }

\* C24: the collision grid of recover() holds every physical obstacle on the
\* arena, and every waypoint the robot moves to and every arc-sweep cell of
\* phase 1 and phase 2 has Chebyshev distance > 2 to every obstacle on the
\* arena, those photographed before the bullseye included.
C24_RecoveryClearOfArena ==
    RecoverDone =>
        /\ ArenaCells \subseteq GridCells
        /\ \A c \in Footprint(response.phase1_path) \cup Footprint(response.phase2_path) :
              ArenaClear(c[1], c[2])

(***************************************************************************)
(* Properties of the tapes of recover().                                   *)
(***************************************************************************)
IsSnap(c) == Len(c) > 2 /\ SubSeq(c, 1, 2) = <<"S", "P">>

\* the positions of a tape that hold a token of the bullseye obstacle
BullseyeTokens(t) ==
    { i \in 1..Len(t) : t[i] \in {SP(request.obstacle_id), SNAP_FAILED(request.obstacle_id)} }

\* C25: full_commands of every recover() result holds exactly one token of
\* the bullseye obstacle, SP{id} when phase 1 succeeded and SNAP_FAILED{id}
\* when it did not; the token precedes every other SP token; phase2_commands
\* holds no SP token of the bullseye obstacle; and the bullseye obstacle is
\* still an obstacle of the grid that the phase-2 path keeps clear of.
C25_BullseyeOnceAndFirst ==
    RecoverDone =>
        LET t == response.full_commands
            own == IF response.skipped_obstacle THEN SNAP_FAILED(request.obstacle_id)
                   ELSE SP(request.obstacle_id)
            b == BullseyeObstacle
        IN  /\ Cardinality(BullseyeTokens(t)) = 1
            /\ \A i \in BullseyeTokens(t) :
                  /\ t[i] = own
                  /\ \A j \in 1..Len(t) : (IsSnap(t[j]) /\ j # i) => j > i
            /\ \A j \in 1..Len(response.phase2_commands) :
                  response.phase2_commands[j] # SP(request.obstacle_id)
            /\ \E i \in 1..Len(grid) : grid[i] = b
            /\ \A c \in Footprint(response.phase2_path) : Chebyshev(c[1], c[2], b.x, b.y) > 2

\* a recovery that reached the bullseye obstacle's face in phase 1 after some
\* motion and photographs another obstacle in phase 2
C25_Witness ==
    /\ RecoverDone /\ ~response.skipped_obstacle
    /\ Len(response.phase1_commands) > 1
    /\ \E j \in 1..Len(response.phase2_commands) : IsSnap(response.phase2_commands[j])

(***************************************************************************)
(* Properties of the grid during a call.                                   *)
(***************************************************************************)
\* the obstacles of the request, as they were sent and in their order
SentObstacles ==
    [i \in 1..Len(request.obstacles) |->
        [x |-> request.obstacles[i].x, y |-> request.obstacles[i].y,
         direction |-> request.obstacles[i].d, obstacle_id |-> request.obstacles[i].id]]

\* the listed obstacles with the id of the bullseye obstacle
WithBullseyeId == { i \in 1..Len(request.obstacles) : request.obstacles[i].id = request.obstacle_id }

\* the grid of the call: for recover(), the first obstacle with the bullseye
\* id has the new face
ExpectedGrid ==
    IF request.mode = "plan" \/ WithBullseyeId = {} THEN SentObstacles
    ELSE [SentObstacles EXCEPT ![SetMin(WithBullseyeId)].direction = request.new_direction]

\* C26: from the first step of a call on, the grid holds the obstacles of the
\* request in their order, with their positions, ids and faces, except that
\* recover() has set the face of the bullseye obstacle to new_direction; the
\* grid never changes after that first step, in phase 1, phase 2 or plan().
C26_GridReadOnly ==
    /\ [](pc # "start" => grid = ExpectedGrid)
    /\ [][grid' # grid => pc = "start"]_vars

\* phase 2 of a recovery that changed the face of the bullseye obstacle and
\* has another obstacle on the grid
C26_Witness ==
    /\ request.mode = "recover" /\ pc = "gfp_segment"
    /\ Len(grid) > 1
    /\ grid # SentObstacles

(***************************************************************************)
(* RPI/task1.py: execute_commands and parse_and_send_command on the tapes  *)
(* of the planner.  response holds the tape, the loop position, the lines  *)
(* written to the motor controller and the object ids of the images sent   *)
(* to the image server.                                                    *)
(***************************************************************************)
\* the largest number of tokens of a tape between its bullseye token and FIN
MaxTokens == 3

\* the tokens the planner puts after the bullseye token
TapeTokens == {FW \o Str(20), BW \o Str(10), FR90, FL90, SP(1), SP(2)}

\* the tapes of plan() and recover(): those of recover() that failed phase 1
\* start with SNAP_FAILED{id}
DispatchTapes ==
    { pre \o body \o <<FIN>> :
        pre \in {<< >>, <<SNAP_FAILED(1)>>, <<SNAP_FAILED(2)>>},
        body \in UNION { [1..n -> TapeTokens] : n \in 0..MaxTokens } }

\* whether int(s) returns, for the strings of the tapes
int_ok(s) == s # << >> /\ \A k \in 1..Len(s) : \E v \in 1..10 : Digits[v] = s[k]

\* f"center,0,{direction},{val}\n" and f"{turn},90,{move_dir},0\n"
Stm32Command(turn, angle, direction, val) ==
    [turn |-> turn, angle |-> angle, direction |-> direction, val |-> val]

InitDispatch ==
    /\ request = PlanRequest(<< >>, 1, 1, NORTH)
    /\ pc = "dispatch"
    /\ ret = "start"
    /\ grid = << >>
    /\ astar = NewAStar
    /\ solver = NoSolver
    /\ handler = NoHandler
    /\ \E tape \in DispatchTapes :
          response = [status |-> "pending", commands |-> tape, i |-> 1,
                      stm32 |-> << >>, images |-> << >>]

\* one iteration of the loop of execute_commands: parse_and_send_command on
\* the next command; an exception leaves the loop and the rest of the tape
ParseAndSendCommand ==
    /\ pc = "dispatch" /\ response.i <= Len(response.commands)
    /\ LET given == response.commands[response.i]
           command == IF startswith(given, <<"S", "N", "A", "P">>)
                      THEN <<"S", "P">> \o SubSeq(given, 5, Len(given))
                      ELSE given
           cmd_type == IF Len(command) < 2 THEN command ELSE SubSeq(command, 1, 2)
           cmd_val == SubSeq(command, 3, Len(command))
           next == [response EXCEPT !.i = @ + 1]
           more == IF response.i < Len(response.commands) THEN "dispatch" ELSE "finished"
       IN  IF given = FIN
           THEN /\ response' = response
                /\ pc' = "finished"
           ELSE IF cmd_type \in {<<"S", "P">>, FW, BW} /\ ~int_ok(cmd_val)
           THEN /\ response' = [response EXCEPT !.status = "ValueError"]
                /\ pc' = "raised"
           ELSE IF cmd_type = <<"S", "P">>
           THEN /\ response' = [next EXCEPT !.images = Append(@, ParseInt(cmd_val))]
                /\ pc' = more
           ELSE IF cmd_type \in {FW, BW}
           THEN /\ response' = [next EXCEPT !.stm32 = Append(@,
                                   Stm32Command("center", 0,
                                       IF cmd_type = FW THEN "forward" ELSE "reverse",
                                       ParseInt(cmd_val)))]
                /\ pc' = more
           ELSE IF cmd_type \in {<<"F", "R">>, <<"F", "L">>, <<"B", "R">>, <<"B", "L">>}
           THEN /\ response' = [next EXCEPT !.stm32 = Append(@,
                                   Stm32Command(IF cmd_type[2] = "R" THEN "right" ELSE "left", 90,
                                       IF cmd_type[1] = "F" THEN "forward" ELSE "reverse", 0))]
                /\ pc' = more
           ELSE /\ response' = next
                /\ pc' = more
    /\ UNCHANGED <<request, ret, grid, astar, solver, handler>>

NextDispatch == ParseAndSendCommand

SpecDispatch == InitDispatch /\ [][NextDispatch]_vars

\* the tokens of a tape before its first FIN
BeforeFin(t) ==
    LET fins == { i \in 1..Len(t) : t[i] = FIN }
    IN  IF fins = {} THEN t ELSE SubSeq(t, 1, SetMin(fins) - 1)

IsSnapFailed(c) == Len(c) > 11 /\ SubSeq(c, 1, 11) = SubSeq(SNAP_FAILED(0), 1, 11)

\* the line the motor controller gets for a motion token
MotorLine(c) ==
    IF IsStraight(c)
    THEN Stm32Command("center", 0, IF c[1] = "F" THEN "forward" ELSE "reverse", Value(c))
    ELSE Stm32Command(IF c[2] = "R" THEN "right" ELSE "left", 90, "forward", 0)

\* C27: the dispatcher ends every tape without an error, having sent the motor
\* controller the lines of the motion tokens before FIN, in order, and
\* nothing for a SNAP_FAILED{id} token, and having taken the image of every
\* SP token before FIN, in order.
C27_SnapFailedNoOp ==
    pc # "dispatch" =>
        LET t == BeforeFin(response.commands)
            motion == SelectSeq(t, LAMBDA c : ~IsSnap(c) /\ ~IsSnapFailed(c))
            snaps == SelectSeq(t, IsSnap)
        IN  /\ pc = "finished"
            /\ response.stm32 = [k \in 1..Len(motion) |-> MotorLine(motion[k])]
            /\ response.images = [k \in 1..Len(snaps) |-> Value(snaps[k])]

(***************************************************************************)
(* find_optimal_order(retrying) followed by generate_full_path, for both   *)
(* values of retrying, on the plan requests.                               *)
(***************************************************************************)
InitRetry ==
    /\ request \in PlanRequests
    /\ pc = "foo_select"
    /\ ret = "start"
    /\ grid = build_grid(request.obstacles)
    /\ astar = NewAStar
    /\ \E retrying \in BOOLEAN :
          solver = NewSolver(request.robot_x, request.robot_y, start_dir(request.robot_dir),
                             [i \in 1..Len(request.obstacles) |-> i], retrying)
    /\ handler = NoHandler
    /\ response = [status |-> "pending"]

NextRetry ==
    \/ FooSelectCall \/ FooSelectReturn \/ FooSelectNone
    \/ GenerateCostMatrix \/ MatrixEntry \/ MatrixCall \/ MatrixReturn
    \/ FindOptimalOrder
    \/ GfpSelectCall \/ GfpSelectReturn \/ GfpSelectNone
    \/ GenerateSegments \/ SegmentCall \/ SegmentReturn
    \/ RunAlgorithmReturn
    \/ AStarGoal \/ AStarClosed \/ AStarExpand \/ AStarExhausted

SpecRetry == InitRetry /\ [][NextRetry]_vars

\* the pose of a viewing position
Cell(v) == <<v.x, v.y, v.direction>>

RECURSIVE VisitsInOrder(_, _, _)
\* the path, from waypoint i on, passes the cells in their order
VisitsInOrder(path, i, cells) ==
    IF cells = << >> THEN TRUE
    ELSE LET at == { k \in i..Len(path) : Cell(path[k]) = Head(cells) }
         IN  at # {} /\ VisitsInOrder(path, SetMin(at), Tail(cells))

\* the scheduler's cells of the permutation, after the start
ScheduledCells ==
    [j \in 1..(Len(solver.permutation) - 1) |-> Cell(solver.foo_vp[solver.permutation[j + 1] + 1])]

\* C28: for both values of retrying, generate_full_path selects for every
\* target the viewing cell find_optimal_order built the cost matrix from, and
\* the returned path passes the cells of the permutation in their order and
\* ends at the last of them.
C28_ViewingCellsAgree ==
    /\ Len(solver.gfp_vp) = Len(solver.targets) + 1 =>
          \A k \in 1..Len(solver.gfp_vp) : Cell(solver.gfp_vp[k]) = Cell(solver.foo_vp[k])
    /\ Done =>
          /\ VisitsInOrder(solver.full_path, 1, ScheduledCells)
          /\ Len(solver.permutation) > 1 =>
                Cell(solver.full_path[Len(solver.full_path)]) = ScheduledCells[Len(ScheduledCells)]

\* a plan of two or more obstacles scheduled with retrying set
C28_Witness ==
    /\ Done /\ solver.retrying
    /\ Len(solver.permutation) > 2

(***************************************************************************)
(* Properties of get_neighbors on the grid of a request.                   *)
(***************************************************************************)
\* the poses on cells that satisfy grid.reachable
ReachablePoses == { q \in ArenaPoses : Reachable(q[1], q[2]) }

\* get_neighbors(s) as a set of <<pose, cost>>
Neighbors(s) == LET n == get_neighbors(grid, s) IN { n[k] : k \in 1..Len(n) }

\* find_optimal_order is entered
OrderEntered == pc = "foo_select" /\ solver.oi = 1 /\ solver.ci = 1 /\ ~solver.waiting

\* the targets whose chosen viewing cell is in reach of the start pose
TargetsInReach ==
    LET reach == InReach(Pos(solver.robot))
    IN  { j \in 1..Len(solver.targets) : Cell(solver.foo_vp[j + 1]) \in reach }

\* C29: on the poses that satisfy grid.reachable, get_neighbors(s) holds t
\* with cost c exactly when get_neighbors(t) holds s with cost c; and when
\* the start pose satisfies grid.reachable, the chosen viewing cells in reach
\* of the start are in reach of each other and the obstacles of the
\* permutation are exactly those whose chosen viewing cell is in reach.
C29_SymmetricMoves ==
    /\ OrderEntered =>
          \A s \in ReachablePoses : \A n \in Neighbors(s) :
              n[1] \in ReachablePoses /\ <<s, n[2]>> \in Neighbors(n[1])
    /\ (OrderReturned /\ Reachable(solver.robot.x, solver.robot.y)) =>
          /\ \A i \in TargetsInReach : \A j \in TargetsInReach :
                solver.cost_matrix[i][j] < 1000000000
          /\ { solver.permutation[k] : k \in 2..Len(solver.permutation) } = TargetsInReach

\* a schedule from a start pose that satisfies grid.reachable, with a target
\* in reach and a target out of reach
C29_Witness ==
    /\ OrderReturned /\ Reachable(solver.robot.x, solver.robot.y)
    /\ TargetsInReach # {}
    /\ TargetsInReach # 1..Len(solver.targets)

(***************************************************************************)
(* Properties of the distance of plan().                                   *)
(***************************************************************************)
\* the penalties of the candidates of a face, in generator order
CandidatePenalty == <<0, 5, 50, 50>>

\* the penalty of the scheduler's viewing cell of target k
ChosenPenalty(k) ==
    LET o == grid[solver.targets[k]]
        c == FaceCandidates(o, o.direction, 3)
    IN  CandidatePenalty[SetMin({ i \in 1..Len(c) : c[i] = Cell(solver.foo_vp[k + 1]) })]

RECURSIVE SumPenalty(_)
\* the sum of the penalties of the chosen viewing cells of the permutation, from position k on
SumPenalty(k) ==
    IF k > Len(solver.permutation) THEN 0
    ELSE ChosenPenalty(solver.permutation[k]) + SumPenalty(k + 1)

RECURSIVE SumMinCost(_)
\* the sum of the least edge costs of the legs of the permutation, from leg k on
SumMinCost(k) ==
    IF k >= Len(solver.permutation) THEN 0
    ELSE MinCost(Cell(solver.foo_vp[solver.permutation[k] + 1]),
                 Cell(solver.foo_vp[solver.permutation[k + 1] + 1])) + SumMinCost(k + 1)

\* the edge cost of a returned path: 1 for a unit straight edge, 23 for a turn edge
PathEdgeCost(p) ==
    (Len(p) - 1 - Cardinality(TurnEdges(p))) + 23 * Cardinality(TurnEdges(p))

\* C30: the distance of every plan() result with a visited obstacle is the
\* number of unit straight edges of the returned path, plus 23 for each of
\* its turn edges, plus the penalties of the chosen viewing cells of the
\* visited obstacles; the edges cost what the least-cost legs between the
\* chosen cells cost with no penalty counted.
C30_DistanceAccounting ==
    (PlanDone /\ Len(solver.permutation) > 1) =>
        /\ response.distance = PathEdgeCost(response.path) + SumPenalty(2)
        /\ PathEdgeCost(response.path) = SumMinCost(1)

\* a plan of two or more obstacles with a turn edge and a viewing cell of
\* penalty > 0
C30_Witness ==
    /\ PlanDone /\ Len(solver.permutation) > 2
    /\ TurnEdges(response.path) # {}
    /\ SumPenalty(2) > 0

====
